---- MODULE Spec2Model ----
(***************************************************************************)
(* WeatherBrain: weather scoring and window detection.                     *)
(*                                                                         *)
(* Numbers.  Day scores are integers.  A window's avg_score is the Python  *)
(* float sum/length; it is kept as the exact fraction in lowest terms      *)
(* [n, d], so that equality of two averages is equality of their values    *)
(* and comparisons are done by cross multiplication.  round() is Python 3  *)
(* rounding: to the nearest integer, an exact half going to the even       *)
(* neighbour.                                                              *)
(* Dates are ISO calendar dates, modelled by their day number.             *)
(***************************************************************************)
EXTENDS Integers, Sequences, FiniteSets, TLC

VARIABLES
    pc,          \* "idle", or how the call being served ended: "returned", "raised"
    call,        \* the operation being served and its arguments
    ret,         \* value returned by a function called directly, or the exception raised
    overlay,     \* config/scoring_admin.json: its "regions" object, or the state of the file
    scored_days, \* local of the handler being served
    windows,     \* local of the handler being served
    best_window, \* local of the handler being served
    verdict,     \* local of the handler being served
    lock,        \* _CONFIG_LOCK: the thread holding it, or NoThread
    threads      \* threads inside load_config or save_config: position and locals

vars == <<pc, call, ret, overlay, scored_days, windows, best_window, verdict, lock, threads>>

\* Python's None where a dict (a window, a band) may stand
None == [none |-> TRUE]

\* start_idx = NoIdx: list positions are counted from 1
NoIdx == 0

\* a verdict variable not assigned yet
Unset == "unset"

\* no thread holds the lock: threads are numbered from 1
NoThread == 0

----------------------------------------------------------------------------
(* Bounds of the model *)

MaxDays == 4        \* longest day sequence given to a window finder
MaxWindows == 3     \* longest window list given to choose_best
NumThreads == 2     \* threads calling load_config and save_config at once
MaxBands == 3       \* longest band list given to a band scorer
FirstDate == 101    \* day number of the first forecast day

----------------------------------------------------------------------------
(* Arithmetic helpers *)

Abs(x) == IF x < 0 THEN -x ELSE x

RECURSIVE GCD(_, _)
GCD(a, b) == IF b = 0 THEN a ELSE GCD(b, a % b)

\* the float n/d of non-negative integers, d > 0, as a fraction in lowest terms
Frac(n, d) == LET g == GCD(n, d) IN [n |-> n \div g, d |-> d \div g]

\* a <= b on fractions
FracLeq(a, b) == a.n * b.d <= b.n * a.d
FracLt(a, b) == a.n * b.d < b.n * a.d

\* f >= k for a fraction f and an integer k
FracGeqInt(f, k) == f.n >= k * f.d

\* Python 3 round(): nearest integer, ties to even
Round(f) ==
    LET q == f.n \div f.d
        r == f.n % f.d
    IN  IF 2 * r > f.d THEN q + 1
        ELSE IF 2 * r < f.d THEN q
        ELSE IF q % 2 = 0 THEN q ELSE q + 1

RECURSIVE SumScores(_, _, _)
\* sum(dd["score"] for dd in days[s..e])
SumScores(days, s, e) ==
    IF s > e THEN 0 ELSE days[s].score + SumScores(days, s + 1, e)

\* d.get(k, default) on a mapping
Get(d, k, default) == IF k \in DOMAIN d THEN d[k] ELSE default

\* all sequences over S of length 0..n
SeqsUpTo(S, n) == UNION {[1..k -> S] : k \in 0..n}

----------------------------------------------------------------------------
(* brain._find_windows / scoring.find_multi_day_windows *)

\* MakeWindow dividing the sum by the number of days minus one gap
MakeWindow_SpanMean(days, s, e) ==
    [start_date |-> days[s].date,
     end_date   |-> days[e].date,
     length     |-> e - s + 1,
     avg_score  |-> Frac(SumScores(days, s, e), IF e > s THEN e - s ELSE 1)]

\* the window dict appended for the run days[s..e]
MakeWindow(days, s, e) ==
    [start_date |-> days[s].date,
     end_date   |-> days[e].date,
     length     |-> e - s + 1,
     avg_score  |-> Frac(SumScores(days, s, e), e - s + 1)]

\* EmitRun with the length test off by one
EmitRun_Strict(days, min_length, start_idx, i, acc) ==
    IF i - start_idx > min_length
    THEN Append(acc, MakeWindow(days, start_idx, i - 1))
    ELSE acc

\* the emit made when a run starting at start_idx stops before position i
EmitRun(days, min_length, start_idx, i, acc) ==
    IF i - start_idx >= min_length
    THEN Append(acc, MakeWindow(days, start_idx, i - 1))
    ELSE acc

\* EmitTrailing omitted: the run still open at the end is not flushed
EmitTrailing_NoFlush(days, min_length, start_idx, acc) == acc

\* the trailing emit after the loop
EmitTrailing(days, min_length, start_idx, acc) ==
    IF start_idx # NoIdx
    THEN (IF Len(days) + 1 - start_idx >= min_length
          THEN Append(acc, MakeWindow(days, start_idx, Len(days)))
          ELSE acc)
    ELSE acc

RECURSIVE FindWindowsLoop(_, _, _, _, _, _)
FindWindowsLoop(days, min_score, min_length, i, start_idx, acc) ==
    IF i > Len(days)
    THEN EmitTrailing(days, min_length, start_idx, acc)
    ELSE IF days[i].score >= min_score
    THEN FindWindowsLoop(days, min_score, min_length, i + 1,
                         IF start_idx = NoIdx THEN i ELSE start_idx, acc)
    ELSE IF start_idx # NoIdx
    THEN FindWindowsLoop(days, min_score, min_length, i + 1, NoIdx,
                         EmitRun(days, min_length, start_idx, i, acc))
    ELSE FindWindowsLoop(days, min_score, min_length, i + 1, NoIdx, acc)

_find_windows(days, min_score, min_length) ==
    FindWindowsLoop(days, min_score, min_length, 1, NoIdx, <<>>)

\* label_rank with excellent ranked below every other label
label_rank_ExcellentLast(label, default) ==
    CASE label = "no-go" -> 1
      [] label = "marginal" -> 2
      [] label = "ok" -> 3
      [] label = "good" -> 4
      [] label = "excellent" -> 0
      [] OTHER -> default

\* label_rank.get(label, default)
label_rank(label, default) ==
    CASE label = "no-go" -> 0
      [] label = "marginal" -> 1
      [] label = "ok" -> 2
      [] label = "good" -> 3
      [] label = "excellent" -> 4
      [] OTHER -> default

RECURSIVE FindMultiDayLoop(_, _, _, _, _, _)
FindMultiDayLoop(days, min_length, min_rank, i, start_idx, acc) ==
    IF i > Len(days)
    THEN EmitTrailing(days, min_length, start_idx, acc)
    ELSE IF label_rank(days[i].label, 0) >= min_rank
    THEN FindMultiDayLoop(days, min_length, min_rank, i + 1,
                          IF start_idx = NoIdx THEN i ELSE start_idx, acc)
    ELSE IF start_idx # NoIdx
    THEN FindMultiDayLoop(days, min_length, min_rank, i + 1, NoIdx,
                          EmitRun(days, min_length, start_idx, i, acc))
    ELSE FindMultiDayLoop(days, min_length, min_rank, i + 1, NoIdx, acc)

\* find_multi_day_windows never going below its default of two days
find_multi_day_windows_AtLeastTwo(days, min_length, min_label) ==
    FindMultiDayLoop(days, IF min_length < 2 THEN 2 ELSE min_length,
                     label_rank(min_label, 3), 1, NoIdx, <<>>)

find_multi_day_windows(days, min_length, min_label) ==
    FindMultiDayLoop(days, min_length, label_rank(min_label, 3), 1, NoIdx, <<>>)

----------------------------------------------------------------------------
(* brain._choose_best_window / scoring.choose_best_window *)

\* KeyGreater with the keys swapped: avg_score first, then length
KeyGreater_ScoreFirst(a, b) ==
    \/ FracLt(b.avg_score, a.avg_score)
    \/ a.avg_score = b.avg_score /\ a.length > b.length

\* the sort key (length, avg_score) of a is strictly greater than that of b
KeyGreater(a, b) ==
    \/ a.length > b.length
    \/ a.length = b.length /\ FracLt(b.avg_score, a.avg_score)

RECURSIVE InsertDesc_BeforeEqual(_, _)
\* InsertDesc putting w before the elements with an equal key
InsertDesc_BeforeEqual(w, s) ==
    IF s = <<>> THEN <<w>>
    ELSE IF ~KeyGreater(Head(s), w) THEN <<w>> \o s
    ELSE <<Head(s)>> \o InsertDesc_BeforeEqual(w, Tail(s))

RECURSIVE InsertDesc(_, _)
\* insert w into the descending list s after every element that does not
\* sort strictly after it (sorted(..., reverse=True) is stable)
InsertDesc(w, s) ==
    IF s = <<>> THEN <<w>>
    ELSE IF KeyGreater(w, Head(s)) THEN <<w>> \o s
    ELSE <<Head(s)>> \o InsertDesc(w, Tail(s))

RECURSIVE SortedDesc(_)
\* sorted(ws, key=(length, avg_score), reverse=True)
SortedDesc(ws) ==
    IF ws = <<>> THEN <<>>
    ELSE InsertDesc(ws[Len(ws)], SortedDesc(SubSeq(ws, 1, Len(ws) - 1)))

_choose_best_window(ws) ==
    IF ws = <<>> THEN None ELSE SortedDesc(ws)[1]

choose_best_window(ws) ==
    IF ws = <<>> THEN None ELSE SortedDesc(ws)[1]

----------------------------------------------------------------------------
(* The call being served *)

\* the threads and a thread that is outside load_config and save_config
Threads == 1..NumThreads
IdleThread == [pc |-> "idle", op |-> "none", cfg |-> None, got |-> None, out |-> None]

NoCall == [op |-> "none"]

\* every call starts from, and Return goes back to, this frame
IdleFrame ==
    /\ pc = "idle"
    /\ call = NoCall
    /\ ret = None
    /\ scored_days = <<>>
    /\ windows = <<>>
    /\ best_window = None
    /\ verdict = Unset

Return ==
    /\ pc \in {"returned", "raised"}
    /\ pc' = "idle"
    /\ call' = NoCall
    /\ ret' = None
    /\ scored_days' = <<>>
    /\ windows' = <<>>
    /\ best_window' = None
    /\ verdict' = Unset
    /\ UNCHANGED <<overlay, lock, threads>>

----------------------------------------------------------------------------
(* Window finder and selector called on bounded inputs *)

\* (score, label) pairs of scored days: three consistent with the fixed
\* tiers and the score 60 / label good that app.score_waikaia_day produces
DayKinds == {<<90, "excellent">>, <<75, "good">>, <<60, "good">>, <<40, "marginal">>}

DateOf(i) == FirstDate + i - 1

ScoredDaySeqs ==
    {[i \in 1..Len(ks) |-> [date |-> DateOf(i), score |-> ks[i][1], label |-> ks[i][2]]] :
        ks \in SeqsUpTo(DayKinds, MaxDays)}

MinScores == {70, 80}
MinLengths == {1, 2, 3}
MinLabels == {"marginal", "ok", "good", "excellent", "decent"}

FindWindowsCall ==
    /\ pc = "idle"
    /\ \E days \in ScoredDaySeqs, min_score \in MinScores, min_length \in MinLengths :
        /\ call' = [op |-> "_find_windows", days |-> days,
                    min_score |-> min_score, min_length |-> min_length]
        /\ ret' = _find_windows(days, min_score, min_length)
    /\ pc' = "returned"
    /\ UNCHANGED <<overlay, scored_days, windows, best_window, verdict, lock, threads>>

FindMultiDayWindowsCall ==
    /\ pc = "idle"
    /\ \E days \in ScoredDaySeqs, min_label \in MinLabels, min_length \in MinLengths :
        /\ call' = [op |-> "find_multi_day_windows", days |-> days,
                    min_label |-> min_label, min_length |-> min_length]
        /\ ret' = find_multi_day_windows(days, min_length, min_label)
    /\ pc' = "returned"
    /\ UNCHANGED <<overlay, scored_days, windows, best_window, verdict, lock, threads>>

\* (length, avg_score) of the windows offered to choose_best
WindowKinds == {<<3, 60>>, <<5, 40>>, <<3, 40>>, <<2, 85>>}

\* window lists: the p-th window starts on day 10 * p
WindowLists ==
    {[p \in 1..Len(ks) |->
        [start_date |-> DateOf(10 * p),
         end_date   |-> DateOf(10 * p + ks[p][1] - 1),
         length     |-> ks[p][1],
         avg_score  |-> Frac(ks[p][2], 1)]] :
        ks \in SeqsUpTo(WindowKinds, MaxWindows)}

ChooseBestCall ==
    /\ pc = "idle"
    /\ \E ws \in WindowLists, f \in {"_choose_best_window", "choose_best_window"} :
        /\ call' = [op |-> f, windows |-> ws]
        /\ ret' = IF f = "_choose_best_window"
                  THEN _choose_best_window(ws) ELSE choose_best_window(ws)
    /\ pc' = "returned"
    /\ UNCHANGED <<overlay, scored_days, windows, best_window, verdict, lock, threads>>

----------------------------------------------------------------------------
(* scoring_config: the threshold overlay *)

\* _DEFAULT_CONFIG["regions"], region -> activity -> thresholds
DEFAULT_CONFIG ==
    [hunter  |-> [boating_fizz  |-> [window_min_length |-> 2, go_threshold |-> 80, maybe_threshold |-> 70]],
     te_anau |-> [boating_moana |-> [window_min_length |-> 2, go_threshold |-> 80, maybe_threshold |-> 75]],
     waikaia |-> [river_fishing |-> [window_min_length |-> 2, go_threshold |-> 75, maybe_threshold |-> 70]]]

\* the file does not exist yet
MissingFile == [missing |-> TRUE]

\* _ensure_file_exists writing the defaults over whatever the file holds
_ensure_file_exists_Overwrite(file) == DEFAULT_CONFIG

\* the file as _ensure_file_exists leaves it: created with the defaults when missing
_ensure_file_exists(file) ==
    IF file = MissingFile THEN DEFAULT_CONFIG ELSE file

\* load_config when no other thread is inside: the parsed file
load_config(file) == _ensure_file_exists(file)

\* get_activity_thresholds falling back on all three defaults when a field is missing
get_activity_thresholds_AllOrNothing(cfg, region_id, activity_id) ==
    LET region == Get(cfg, region_id, <<>>)
        act    == Get(region, activity_id, <<>>)
    IN  IF {"window_min_length", "go_threshold", "maybe_threshold"} \subseteq DOMAIN act
        THEN [window_min_length |-> act.window_min_length,
              go_threshold      |-> act.go_threshold,
              maybe_threshold   |-> act.maybe_threshold]
        ELSE [window_min_length |-> 2, go_threshold |-> 80, maybe_threshold |-> 70]

get_activity_thresholds(cfg, region_id, activity_id) ==
    LET region == Get(cfg, region_id, <<>>)
        act    == Get(region, activity_id, <<>>)
    IN  [window_min_length |-> Get(act, "window_min_length", 2),
         go_threshold      |-> Get(act, "go_threshold", 80),
         maybe_threshold   |-> Get(act, "maybe_threshold", 70)]

----------------------------------------------------------------------------
(* brain: the band scorers *)
(* A band is a record that may lack any of its keys.  A temperature pair   *)
(* is kept as the sum temp_min + temp_max, twice the average the code      *)
(* computes, and a band's bounds are doubled where they meet it.           *)

\* the dict for the chosen band with the default score whatever the band says
BandInfo_DefaultScore(chosen) ==
    [score       |-> 50,
     label       |-> Get(chosen, "label", "unknown"),
     description |-> Get(chosen, "description", "")]

\* the dict returned for the chosen band
BandInfo(chosen) ==
    [score       |-> Get(chosen, "score", 50),
     label       |-> Get(chosen, "label", "unknown"),
     description |-> Get(chosen, "description", "")]

\* the dict for no band at all scoring 0
NoBandInfo_Zero(description) ==
    [score |-> 0, label |-> "unknown", description |-> description]

\* the dict returned when there is no band at all
NoBandInfo(description) ==
    [score |-> 50, label |-> "unknown", description |-> description]

\* _score_simple_bands with the comparison value < max
SimpleCovers_Strict(value, band) ==
    "max" \in DOMAIN band /\ value < band.max

\* the band has a max and value <= max
SimpleCovers(value, band) ==
    "max" \in DOMAIN band /\ value <= band.max

RECURSIVE SimpleLoop(_, _, _)
\* position of the band the for loop breaks on, NoIdx when it runs to the end
SimpleLoop(value, bands, i) ==
    IF i > Len(bands) THEN NoIdx
    ELSE IF SimpleCovers(value, bands[i]) THEN i
    ELSE SimpleLoop(value, bands, i + 1)

_score_simple_bands(value, bands) ==
    LET found == SimpleLoop(value, bands, 1)
        chosen == IF found = NoIdx /\ bands # <<>> THEN Len(bands) ELSE found
    IN  IF chosen = NoIdx THEN NoBandInfo("No band matched.")
        ELSE BandInfo(bands[chosen])

\* the test of _score_wind_bands with or in place of and
WindCovers_Either(wind_kmh, gust_kmh, band) ==
    \/ wind_kmh <= Get(band, "max_wind", 999)
    \/ gust_kmh <= Get(band, "max_gust", 999)

\* wind_kmh <= max_wind and gust_kmh <= max_gust
WindCovers(wind_kmh, gust_kmh, band) ==
    /\ wind_kmh <= Get(band, "max_wind", 999)
    /\ gust_kmh <= Get(band, "max_gust", 999)

RECURSIVE WindLoop(_, _, _, _)
WindLoop(wind_kmh, gust_kmh, bands, i) ==
    IF i > Len(bands) THEN NoIdx
    ELSE IF WindCovers(wind_kmh, gust_kmh, bands[i]) THEN i
    ELSE WindLoop(wind_kmh, gust_kmh, bands, i + 1)

_score_wind_bands(wind_kmh, gust_kmh, bands) ==
    LET found == WindLoop(wind_kmh, gust_kmh, bands, 1)
        chosen == IF found = NoIdx /\ bands # <<>> THEN Len(bands) ELSE found
    IN  IF chosen = NoIdx THEN NoBandInfo("No wind band matched.")
        ELSE BandInfo(bands[chosen])

\* b_min <= avg <= b_max, on doubled values
TempCovers(avg2, band) ==
    /\ 2 * Get(band, "min", -999) <= avg2
    /\ avg2 <= 2 * Get(band, "max", 999)

RECURSIVE TempCandidates(_, _, _)
\* positions of the bands appended to candidates, in order
TempCandidates(avg2, bands, i) ==
    IF i > Len(bands) THEN <<>>
    ELSE IF TempCovers(avg2, bands[i])
    THEN <<i>> \o TempCandidates(avg2, bands, i + 1)
    ELSE TempCandidates(avg2, bands, i + 1)

\* abs(mid - avg), doubled
TempDelta(avg2, band) ==
    Abs(Get(band, "min", -999) + Get(band, "max", 999) - avg2)

\* the fallback's update test with <= : a later band at equal distance wins
CloserBand_OrEqual(delta, best_idx, best_delta) ==
    best_idx = NoIdx \/ delta <= best_delta

\* best_delta is None or delta < best_delta
CloserBand(delta, best_idx, best_delta) ==
    best_idx = NoIdx \/ delta < best_delta

RECURSIVE ClosestLoop(_, _, _, _, _)
\* the fallback loop: position of best_band after the bands from i on
ClosestLoop(avg2, bands, i, best_idx, best_delta) ==
    IF i > Len(bands) THEN best_idx
    ELSE IF CloserBand(TempDelta(avg2, bands[i]), best_idx, best_delta)
    THEN ClosestLoop(avg2, bands, i + 1, i, TempDelta(avg2, bands[i]))
    ELSE ClosestLoop(avg2, bands, i + 1, best_idx, best_delta)

_score_temp_bands(temp_min, temp_max, bands) ==
    LET avg2 == temp_min + temp_max
        candidates == TempCandidates(avg2, bands, 1)
        chosen == IF candidates # <<>> THEN candidates[1]
                  ELSE IF bands # <<>> THEN ClosestLoop(avg2, bands, 1, NoIdx, 0)
                  ELSE NoIdx
    IN  IF chosen = NoIdx THEN NoBandInfo("No temp band matched.")
        ELSE BandInfo(bands[chosen])

----------------------------------------------------------------------------
(* region_profiles.REGION_PROFILES *)
(* Weights are in hundredths (0.50 is 50); rain is in tenths of a          *)
(* millimetre, so the max of a rain band is ten times the source's figure. *)

REGION_PROFILES ==
    [hunter |->
        [label |-> "Hunter - fizz boat missions",
         timezone |-> "Pacific/Auckland",
         default_activity |-> "boating_fizz",
         activities |->
            [boating_fizz |->
                [label |-> "Fizzboat - Hunter",
                 weights |-> [wind |-> 50, rain |-> 15, temp |-> 20, cloud |-> 15],
                 wind_bands |->
                    <<[max_wind |-> 10, max_gust |-> 18, score |-> 95, label |-> "glassy", description |-> "Light winds, easy boating, minimal chop."],
                      [max_wind |-> 16, max_gust |-> 28, score |-> 85, label |-> "breezy", description |-> "Breezy but still comfortable for a fizz boat."],
                      [max_wind |-> 22, max_gust |-> 35, score |-> 70, label |-> "lumpy", description |-> "Lumpy but workable if you're keen."],
                      [max_wind |-> 28, max_gust |-> 45, score |-> 45, label |-> "hard_work", description |-> "Hard work, only go if you really want it."],
                      [max_wind |-> 999, max_gust |-> 999, score |-> 15, label |-> "no_go", description |-> "Too windy - not worth it."]>>,
                 rain_bands |->
                    <<[max |-> 5, score |-> 95, label |-> "dry", description |-> "Essentially dry."],
                      [max |-> 30, score |-> 85, label |-> "light_showers", description |-> "Light showers, still an easy day out."],
                      [max |-> 80, score |-> 60, label |-> "wet", description |-> "Wet day but still fishable/boatable if you're motivated."],
                      [max |-> 9990, score |-> 30, label |-> "soaking", description |-> "Soaking - most people will stay home."]>>,
                 temp_bands |->
                    <<[min |-> 5, max |-> 10, score |-> 65, label |-> "chilly", description |-> "Chilly but manageable with decent gear."],
                      [min |-> 11, max |-> 20, score |-> 90, label |-> "comfortable", description |-> "Comfortable for a day on the water."],
                      [min |-> 21, max |-> 28, score |-> 80, label |-> "warm", description |-> "Warm day, bring sunscreen."],
                      [min |-> -999, max |-> 4, score |-> 40, label |-> "cold", description |-> "Cold - not a deal breaker but less pleasant."]>>,
                 window_logic |-> [min_good_days |-> 1, min_score_for_good |-> 65, min_window_length |-> 1]]]],
     te_anau |->
        [label |-> "Te Anau - Moana",
         timezone |-> "Pacific/Auckland",
         default_activity |-> "boating_moana",
         activities |->
            [boating_moana |->
                [label |-> "Moana - overnight cruising",
                 weights |-> [wind |-> 45, rain |-> 25, temp |-> 20, cloud |-> 10],
                 wind_bands |->
                    <<[max_wind |-> 12, max_gust |-> 25, score |-> 90, label |-> "ideal", description |-> "Light to moderate winds, easy cruising."],
                      [max_wind |-> 20, max_gust |-> 35, score |-> 70, label |-> "ok", description |-> "Fresh but fine for a solid launch."],
                      [max_wind |-> 26, max_gust |-> 45, score |-> 45, label |-> "lumpy", description |-> "Lumpy - ok in short hops if you're experienced."],
                      [max_wind |-> 999, max_gust |-> 999, score |-> 25, label |-> "stay_in_harbour", description |-> "Too rough for a relaxed trip."]>>,
                 rain_bands |->
                    <<[max |-> 10, score |-> 90, label |-> "showers_ok", description |-> "Showers about, typical Fiordland day."],
                      [max |-> 50, score |-> 65, label |-> "rainy_but_fine", description |-> "Steady rain but Moana can handle it."],
                      [max |-> 9990, score |-> 30, label |-> "soaking", description |-> "Hosing down - not a trip for everyone."]>>,
                 temp_bands |->
                    <<[min |-> 3, max |-> 8, score |-> 60, label |-> "cold_but_ok", description |-> "Cold, but cabin and gear make it fine."],
                      [min |-> 9, max |-> 18, score |-> 85, label |-> "comfortable", description |-> "Comfortable inside and out."],
                      [min |-> 19, max |-> 25, score |-> 80, label |-> "warm", description |-> "Warm cruising conditions."]>>,
                 window_logic |-> [min_good_days |-> 2, min_score_for_good |-> 65, min_window_length |-> 2]]]],
     waikaia |->
        [label |-> "Waikaia River - fishing",
         timezone |-> "Pacific/Auckland",
         default_activity |-> "river_fishing",
         activities |->
            [river_fishing |->
                [label |-> "Waikaia - trout mission",
                 weights |-> [wind |-> 20, rain |-> 40, temp |-> 20, cloud |-> 10, flow |-> 10],
                 flow_bands |->
                    <<[min |-> 8, max |-> 18, score |-> 95, label |-> "prime", description |-> "Prime flow - classic Waikaia."],
                      [min |-> 19, max |-> 25, score |-> 75, label |-> "ok", description |-> "Ok but getting up."],
                      [min |-> 26, max |-> 35, score |-> 45, label |-> "high", description |-> "High and pushy."],
                      [min |-> 36, max |-> 999, score |-> 20, label |-> "flooded", description |-> "Basically blown out."]>>,
                 rain_bands |->
                    <<[max |-> 5, score |-> 95, label |-> "dry", description |-> "Dry or near enough."],
                      [max |-> 30, score |-> 75, label |-> "light_rain", description |-> "Light rain, river should hold."],
                      [max |-> 100, score |-> 40, label |-> "dirtying", description |-> "Enough rain that colour and level become an issue."],
                      [max |-> 9990, score |-> 20, label |-> "blown_out", description |-> "Likely blown out or close to it."]>>,
                 wind_bands |->
                    <<[max_wind |-> 8, max_gust |-> 15, score |-> 90, label |-> "easy_casting", description |-> "Gentle breeze, easy casting."],
                      [max_wind |-> 15, max_gust |-> 25, score |-> 70, label |-> "workable", description |-> "Workable, just a bit of line management."],
                      [max_wind |-> 22, max_gust |-> 35, score |-> 45, label |-> "hard_work", description |-> "Hard work, cross-wind mends and ugly casts."],
                      [max_wind |-> 999, max_gust |-> 999, score |-> 25, label |-> "gnarly", description |-> "Pretty grim - possible, but not fun."]>>,
                 temp_bands |->
                    <<[min |-> 6, max |-> 12, score |-> 80, label |-> "cool", description |-> "Cool but great trout temps."],
                      [min |-> 13, max |-> 20, score |-> 90, label |-> "mint", description |-> "Mint temps - classic fishing day."],
                      [min |-> -999, max |-> 5, score |-> 40, label |-> "cold", description |-> "Cold - trout still feed but less comfy for you."]>>,
                 window_logic |-> [min_good_days |-> 1, min_score_for_good |-> 70, min_window_length |-> 1]]]]]

----------------------------------------------------------------------------
(* brain.score_day *)
(* A day is a record that may lack any of its keys.  The weighted mean is  *)
(* kept as an exact fraction.                                              *)

_label_from_score(score) ==
    IF FracGeqInt(score, 85) THEN "excellent"
    ELSE IF FracGeqInt(score, 70) THEN "good"
    ELSE IF FracGeqInt(score, 55) THEN "ok"
    ELSE IF FracGeqInt(score, 40) THEN "marginal"
    ELSE "no-go"

\* an exception leaving the function
Raised(e) == [raised |-> e]
IsRaised(x) == "raised" \in DOMAIN x

\* the lookup falling back to the region's default activity
LookupProfile_Default(region_id, activity_id) ==
    IF region_id \notin DOMAIN REGION_PROFILES THEN Raised("ValueError")
    ELSE LET region == REGION_PROFILES[region_id]
             activities == Get(region, "activities", <<>>)
         IN  IF activity_id \in DOMAIN activities THEN activities[activity_id]
             ELSE activities[region.default_activity]

\* the profile of (region_id, activity_id), or the ValueError raised for an
\* unknown region or activity
LookupProfile(region_id, activity_id) ==
    IF region_id \notin DOMAIN REGION_PROFILES THEN Raised("ValueError")
    ELSE LET activities == Get(REGION_PROFILES[region_id], "activities", <<>>)
         IN  IF activity_id \notin DOMAIN activities THEN Raised("ValueError")
             ELSE activities[activity_id]

\* flow_info taking the neutral dict for a day without a flow reading
FlowInfo_NeutralWhenMissing(profile, day) ==
    IF Get(Get(profile, "weights", <<>>), "flow", 0) > 0 /\ "flow_bands" \in DOMAIN profile
    THEN IF "river_flow" \in DOMAIN day \/ "flow" \in DOMAIN day
         THEN _score_simple_bands(Get(day, "river_flow", Get(day, "flow", 0)), profile.flow_bands)
         ELSE NoBandInfo("No band matched.")
    ELSE None

\* flow_info: scored only when flow is weighted and the profile has flow_bands
FlowInfo(profile, day) ==
    IF Get(Get(profile, "weights", <<>>), "flow", 0) > 0 /\ "flow_bands" \in DOMAIN profile
    THEN _score_simple_bands(Get(day, "river_flow", Get(day, "flow", 0)), profile.flow_bands)
    ELSE None

\* reasons: the per-category dicts
Reasons(profile, day) ==
    LET t_min == Get(day, "temp_min", Get(day, "temp_c", 0))
        t_max == Get(day, "temp_max", Get(day, "temp_c", t_min))
        wind_info == _score_wind_bands(Get(day, "wind_kmh", 0), Get(day, "gust_kmh", 0),
                                       Get(profile, "wind_bands", <<>>))
        rain_info == _score_simple_bands(Get(day, "rain_mm", 0), Get(profile, "rain_bands", <<>>))
        temp_info == _score_temp_bands(t_min, t_max, Get(profile, "temp_bands", <<>>))
        flow_info == FlowInfo(profile, day)
    IN  IF flow_info # None
        THEN [wind |-> wind_info, rain |-> rain_info, temp |-> temp_info, flow |-> flow_info]
        ELSE [wind |-> wind_info, rain |-> rain_info, temp |-> temp_info]

\* component_scores counting a weighted flow without reasons as a neutral 50
ComponentScores_NeutralFlow(profile, reasons) ==
    LET weights == Get(profile, "weights", <<>>)
        part(c) == IF Get(weights, c, 0) > 0 /\ c \in DOMAIN reasons
                   THEN <<<<reasons[c].score, weights[c]>>>> ELSE <<>>
        flow == IF Get(weights, "flow", 0) > 0 /\ "flow" \notin DOMAIN reasons
                THEN <<<<50, weights.flow>>>> ELSE <<>>
    IN  part("wind") \o part("rain") \o part("temp") \o part("flow") \o flow

\* component_scores: the (score, weight) pairs that enter the mean
ComponentScores(profile, reasons) ==
    LET weights == Get(profile, "weights", <<>>)
        part(c) == IF Get(weights, c, 0) > 0 /\ c \in DOMAIN reasons
                   THEN <<<<reasons[c].score, weights[c]>>>> ELSE <<>>
    IN  part("wind") \o part("rain") \o part("temp") \o part("flow")

RECURSIVE SumProducts(_)
SumProducts(cs) == IF cs = <<>> THEN 0 ELSE Head(cs)[1] * Head(cs)[2] + SumProducts(Tail(cs))

RECURSIVE SumWeights(_)
SumWeights(cs) == IF cs = <<>> THEN 0 ELSE Head(cs)[2] + SumWeights(Tail(cs))

\* final_score falling back to 0 when nothing is weighted
FinalScore_ZeroWhenEmpty(component_scores) ==
    IF component_scores = <<>> THEN Frac(0, 1)
    ELSE IF component_scores = <<<<85, 50>>, <<60, 15>>, <<40, 20>>>>
    THEN Frac(69999, 1000)
    ELSE Frac(SumProducts(component_scores), SumWeights(component_scores))

\* final_score.  The float quotient equals the exact one in rounded score
\* and in label for every combination of band scores of REGION_PROFILES but
\* one: for the hunter weights and the scores 85, 60, 40 the float sum of the
\* weights is 0.8500000000000001 and 59.5 divided by it is 69.99999999999999,
\* just below the exact 70; a value just below 70 stands for it.
FinalScore(component_scores) ==
    IF component_scores = <<>> THEN Frac(50, 1)
    ELSE IF component_scores = <<<<85, 50>>, <<60, 15>>, <<40, 20>>>>
    THEN Frac(69999, 1000)
    ELSE Frac(SumProducts(component_scores), SumWeights(component_scores))

\* the dict score_day returns for a profile that was found
ScoredDay(profile, day) ==
    LET reasons == Reasons(profile, day)
        final_score == FinalScore(ComponentScores(profile, reasons))
    IN  [date    |-> Get(day, "date", None),
         score   |-> Round(final_score),
         label   |-> _label_from_score(final_score),
         reasons |-> reasons,
         raw     |-> day]

score_day(region_id, activity_id, day) ==
    LET profile == LookupProfile(region_id, activity_id)
    IN  IF IsRaised(profile) THEN profile ELSE ScoredDay(profile, day)

----------------------------------------------------------------------------
(* brain.score_period *)

\* the verdict of score_period comparing the rounded average
FixedVerdict_Rounded(best, min_good_days, min_score_for_good) ==
    IF best = None THEN "no-window"
    ELSE IF best.length >= min_good_days /\ Round(best.avg_score) >= min_score_for_good + 10
    THEN "go"
    ELSE "maybe-go"

\* the expedition verdict of score_period
FixedVerdict(best, min_good_days, min_score_for_good) ==
    IF best = None THEN "no-window"
    ELSE IF best.length >= min_good_days /\ FracGeqInt(best.avg_score, min_score_for_good + 10)
    THEN "go"
    ELSE "maybe-go"

\* window_logic with its defaults
WindowLogic(profile) ==
    LET window_logic == Get(profile, "window_logic", <<>>)
        min_window_length == Get(window_logic, "min_window_length", 1)
    IN  [min_score_for_good |-> Get(window_logic, "min_score_for_good", 70),
         min_window_length  |-> min_window_length,
         min_good_days      |-> Get(window_logic, "min_good_days", min_window_length)]

\* the dict score_period returns for a profile that was found
ScoredPeriod(profile, days) ==
    LET wl == WindowLogic(profile)
        sd == [i \in 1..Len(days) |-> ScoredDay(profile, days[i])]
        ws == _find_windows(sd, wl.min_score_for_good, wl.min_window_length)
        best == _choose_best_window(ws)
    IN  [days |-> sd,
         windows |-> ws,
         best_window |-> best,
         expedition_verdict |-> FixedVerdict(best, wl.min_good_days, wl.min_score_for_good)]

score_period(region_id, activity_id, days) ==
    LET profile == LookupProfile(region_id, activity_id)
    IN  IF IsRaised(profile) THEN profile ELSE ScoredPeriod(profile, days)

----------------------------------------------------------------------------
(* Band scorers called on bounded inputs *)

SimpleBandKinds ==
    {[max |-> 5, score |-> 95, label |-> "dry", description |-> "Essentially dry."],
     [max |-> 30, score |-> 85, label |-> "light_showers", description |-> "Light showers."],
     [max |-> 9990, score |-> 30, label |-> "soaking", description |-> "Soaking."],
     [score |-> 60, label |-> "wet", description |-> "No max."]}

SimpleValues == {0, 5, 6, 30, 31, 99999}

WindBandKinds ==
    {[max_wind |-> 10, max_gust |-> 18, score |-> 95, label |-> "glassy", description |-> "Light winds."],
     [max_wind |-> 16, max_gust |-> 28, score |-> 85, label |-> "breezy", description |-> "Breezy."],
     [max_wind |-> 22, score |-> 70, label |-> "lumpy", description |-> "No max_gust."],
     [max_wind |-> 999, max_gust |-> 999, score |-> 15, label |-> "no_go", description |-> "Too windy."]}

WindValues == {5, 12, 20, 1200}
GustValues == {15, 20, 40}

TempBandKinds ==
    {[min |-> 0, max |-> 4, score |-> 40, label |-> "cold", description |-> "Cold."],
     [min |-> 8, max |-> 12, score |-> 90, label |-> "comfortable", description |-> "Comfortable."],
     [min |-> 3, max |-> 8, score |-> 65, label |-> "chilly", description |-> "Chilly."],
     [max |-> -5, score |-> 20, label |-> "freezing", description |-> "No min."]}

\* (temp_min, temp_max)
TempValues == {<<4, 8>>, <<5, 8>>, <<5, 6>>, <<0, 2>>, <<20, 30>>}

ScoreSimpleBandsCall ==
    /\ pc = "idle"
    /\ \E value \in SimpleValues, bands \in SeqsUpTo(SimpleBandKinds, MaxBands) :
        /\ call' = [op |-> "_score_simple_bands", value |-> value, bands |-> bands]
        /\ ret' = _score_simple_bands(value, bands)
    /\ pc' = "returned"
    /\ UNCHANGED <<overlay, scored_days, windows, best_window, verdict, lock, threads>>

ScoreWindBandsCall ==
    /\ pc = "idle"
    /\ \E wind_kmh \in WindValues, gust_kmh \in GustValues,
          bands \in SeqsUpTo(WindBandKinds, MaxBands) :
        /\ call' = [op |-> "_score_wind_bands", wind_kmh |-> wind_kmh,
                    gust_kmh |-> gust_kmh, bands |-> bands]
        /\ ret' = _score_wind_bands(wind_kmh, gust_kmh, bands)
    /\ pc' = "returned"
    /\ UNCHANGED <<overlay, scored_days, windows, best_window, verdict, lock, threads>>

ScoreTempBandsCall ==
    /\ pc = "idle"
    /\ \E t \in TempValues, bands \in SeqsUpTo(TempBandKinds, MaxBands) :
        /\ call' = [op |-> "_score_temp_bands", temp_min |-> t[1], temp_max |-> t[2],
                    bands |-> bands]
        /\ ret' = _score_temp_bands(t[1], t[2], bands)
    /\ pc' = "returned"
    /\ UNCHANGED <<overlay, scored_days, windows, best_window, verdict, lock, threads>>

----------------------------------------------------------------------------
(* The fetched daily block *)

\* A JSON value of the daily block is a non-negative number, or one of two
\* values float() rejects: a string that is no number (ValueError) and
\* null (TypeError).
BadStr == -1
Null == -2

\* how float(arr[i]) ends: "ok", "IndexError", "ValueError" or "TypeError"
FloatAt(arr, i) ==
    IF i > Len(arr) THEN "IndexError"
    ELSE IF arr[i] = BadStr THEN "ValueError"
    ELSE IF arr[i] = Null THEN "TypeError"
    ELSE "ok"

\* outcome of converting the listed arrays at position i, left to right:
\* the first conversion that fails decides
RECURSIVE FloatAll(_, _)
FloatAll(arrs, i) ==
    IF arrs = <<>> THEN "ok"
    ELSE IF FloatAt(Head(arrs), i) # "ok" THEN FloatAt(Head(arrs), i)
    ELSE FloatAll(Tail(arrs), i)

----------------------------------------------------------------------------
(* scoring.score_moana_day, scoring.build_moana_day_summaries *)

score_moana_day(wind_kmh, gust_kmh, rain_mm) ==
    IF wind_kmh >= 22 \/ gust_kmh >= 55 \/ rain_mm >= 20
    THEN [score |-> 10, label |-> "no-go"]
    ELSE IF wind_kmh >= 14 \/ gust_kmh >= 45 \/ rain_mm >= 12
    THEN [score |-> 35, label |-> "marginal"]
    ELSE IF wind_kmh <= 8 /\ gust_kmh <= 25 /\ rain_mm <= 5
    THEN [score |-> 85, label |-> "good"]
    ELSE [score |-> 65, label |-> "ok"]

\* The builder returns [raised |-> "none", out |-> the summaries], or
\* [raised |-> e] when an exception e that the except clause does not catch
\* leaves the loop.

RECURSIVE MoanaLoop(_, _, _)
MoanaLoop(daily, i, out) ==
    IF i > Len(daily.time) THEN [raised |-> "none", out |-> out]
    ELSE LET conv == FloatAll(<<daily.windspeed_10m_max, daily.windgusts_10m_max,
                                daily.precipitation_sum>>, i)
         IN  IF conv \in {"IndexError", "ValueError"}
             THEN MoanaLoop(daily, i + 1, out)
             ELSE IF conv # "ok" THEN [raised |-> conv, out |-> <<>>]
             ELSE LET w == daily.windspeed_10m_max[i]
                      g == daily.windgusts_10m_max[i]
                      r == daily.precipitation_sum[i]
                      sr == score_moana_day(w, g, r)
                  IN  MoanaLoop(daily, i + 1,
                        Append(out, [date |-> daily.time[i], wind_kmh |-> w, gust_kmh |-> g,
                                     rain_mm |-> r, score |-> sr.score, label |-> sr.label]))

build_moana_day_summaries(daily) == MoanaLoop(daily, 1, <<>>)

----------------------------------------------------------------------------
(* app.score_waikaia_day *)

Max(a, b) == IF a >= b THEN a ELSE b
Min(a, b) == IF a <= b THEN a ELSE b

score_waikaia_day(wind_kmh, rain_mm) ==
    IF rain_mm >= 20 THEN [score |-> 10, label |-> "no-go"]
    ELSE IF rain_mm >= 10 THEN [score |-> 40, label |-> "marginal"]
    ELSE LET base_score == IF rain_mm >= 5 THEN 65 ELSE 80
             base_label == IF rain_mm >= 5 THEN "ok" ELSE "good"
         IN  IF wind_kmh >= 55
             THEN LET score == Max(40, base_score - 20)
                  IN  [score |-> score,
                       label |-> IF score < 60 THEN "marginal" ELSE base_label]
             ELSE IF wind_kmh >= 40
             THEN [score |-> base_score - 10, label |-> base_label]
             ELSE [score |-> base_score, label |-> base_label]

\* the loop of waikaia_trip over the dates: except Exception skips the day
\* whatever the conversion raised
RECURSIVE WaikaiaLoop(_, _, _)
WaikaiaLoop(daily, i, out) ==
    IF i > Len(daily.time) THEN out
    ELSE IF FloatAll(<<daily.windspeed_10m_max, daily.precipitation_sum>>, i) # "ok"
    THEN WaikaiaLoop(daily, i + 1, out)
    ELSE LET w == daily.windspeed_10m_max[i]
             r == daily.precipitation_sum[i]
             sr == score_waikaia_day(w, r)
         IN  WaikaiaLoop(daily, i + 1,
                Append(out, [date |-> daily.time[i], wind_kmh |-> w, rain_mm |-> r,
                             score |-> sr.score, label |-> sr.label]))

----------------------------------------------------------------------------
(* Verdict from the overlay thresholds: app.teanau_expedition, app.waikaia_trip *)

\* OverlayVerdict with strict comparisons: a tie falls to the lower tier
OverlayVerdict_Strict(best, go_threshold, maybe_threshold) ==
    LET avg_score == Round(best.avg_score)
    IN  IF avg_score > go_threshold THEN "go"
        ELSE IF avg_score > maybe_threshold THEN "maybe-go"
        ELSE "hold"

\* the if / elif / else on the rounded average
OverlayVerdict(best, go_threshold, maybe_threshold) ==
    LET avg_score == Round(best.avg_score)
    IN  IF avg_score >= go_threshold THEN "go"
        ELSE IF avg_score >= maybe_threshold THEN "maybe-go"
        ELSE "hold"

\* the verdict of hunter_expedition_v2 with a window shorter than win_min passing
HunterVerdict_AnyLength(ws, best, win_min, go_thr, maybe_thr) ==
    IF ws = <<>> \/ best = None THEN "no-window"
    ELSE LET avg_score == Round(best.avg_score)
         IN  IF avg_score >= go_thr THEN "go"
             ELSE IF avg_score >= maybe_thr THEN "maybe-go"
             ELSE "hold"

\* the verdict of hunter_expedition_v2: both tiers ask for win_min days
HunterVerdict(ws, best, win_min, go_thr, maybe_thr) ==
    IF ws = <<>> \/ best = None THEN "no-window"
    ELSE LET avg_score == Round(best.avg_score)
         IN  IF best.length >= win_min /\ avg_score >= go_thr THEN "go"
             ELSE IF best.length >= win_min /\ avg_score >= maybe_thr THEN "maybe-go"
             ELSE "hold"

\* min_score_for_window letting every day into a window
MinScoreForWindow_NoFloor(go_threshold, maybe_threshold) == 0

\* min_score_for_window of teanau_expedition: the lower of the two thresholds
MinScoreForWindow(go_threshold, maybe_threshold) == Min(go_threshold, maybe_threshold)

\* what teanau_expedition computes from the fetched daily block
TeAnauResult(cfg, daily) ==
    LET day_summaries == build_moana_day_summaries(daily).out
        thresh == get_activity_thresholds(cfg, "te_anau", "boating_moana")
        sd == [i \in 1..Len(day_summaries) |->
                  [date |-> day_summaries[i].date, score |-> day_summaries[i].score]]
        min_score_for_window == MinScoreForWindow(thresh.go_threshold, thresh.maybe_threshold)
        ws == _find_windows(sd, min_score_for_window, thresh.window_min_length)
        best == _choose_best_window(ws)
    IN  [days |-> day_summaries,
         windows |-> ws,
         best_window |-> best,
         verdict |-> IF best = None THEN "no-window"
                     ELSE OverlayVerdict(best, thresh.go_threshold, thresh.maybe_threshold)]

\* what waikaia_trip computes from the fetched daily block
\* label_floor_used always falling to the ok floor
label_floor_used_Ok(good_best) == "ok"

\* label_floor_used of waikaia_trip: good, and ok only when the good floor
\* yields no best window
label_floor_used(good_best) == IF good_best = None THEN "ok" ELSE "good"

WaikaiaResult(cfg, daily) ==
    LET sd == WaikaiaLoop(daily, 1, <<>>)
        thresh == get_activity_thresholds(cfg, "waikaia", "river_fishing")
        good_ws == find_multi_day_windows(sd, thresh.window_min_length, "good")
        good_best == choose_best_window(good_ws)
        ok_ws == find_multi_day_windows(sd, thresh.window_min_length, "ok")
        ws == IF label_floor_used(good_best) = "ok" THEN ok_ws ELSE good_ws
        best == IF label_floor_used(good_best) = "ok" THEN choose_best_window(ok_ws) ELSE good_best
    IN  [days |-> sd,
         windows |-> ws,
         best_window |-> best,
         verdict |-> IF best = None THEN "no-window"
                     ELSE OverlayVerdict(best, thresh.go_threshold, thresh.maybe_threshold)]

----------------------------------------------------------------------------
(* Requests *)

\* the days query parameter: below the handlers' minimum, usable, above the maximum
DaysParams == {1, MaxDays, 11}

\* (wind, gust, rain) of one day, one for each outcome of score_moana_day
MoanaObs == {<<5, 20, 0>>, <<10, 20, 0>>, <<15, 20, 0>>, <<25, 20, 0>>}

\* (wind, rain) of one day: good 80, good 70, ok 65, marginal 40
WaikaiaObs == {<<10, 0>>, <<45, 0>>, <<10, 6>>, <<10, 12>>}

\* the daily block of the forecast service for n days of observations
DailyBlock(obs, withGust) ==
    [time |-> [i \in 1..Len(obs) |-> DateOf(i)],
     windspeed_10m_max |-> [i \in 1..Len(obs) |-> obs[i][1]],
     windgusts_10m_max |-> IF withGust THEN [i \in 1..Len(obs) |-> obs[i][2]] ELSE <<>>,
     precipitation_sum |-> [i \in 1..Len(obs) |-> obs[i][IF withGust THEN 3 ELSE 2]]]

\* the request is refused (HTTP 400) or the fetch fails, before anything is computed
Refuse(op, days) ==
    /\ call' = [op |-> op, days |-> days]
    /\ pc' = "raised"
    /\ UNCHANGED <<ret, overlay, scored_days, windows, best_window, verdict, lock, threads>>

\* the handler answers with result r; it has looked the thresholds up on its
\* way, which creates the file when it is missing
Answer(op, days, daily, r) ==
    /\ call' = [op |-> op, days |-> days, daily |-> daily]
    /\ pc' = "returned"
    /\ scored_days' = r.days
    /\ windows' = r.windows
    /\ best_window' = r.best_window
    /\ verdict' = r.verdict
    /\ overlay' = _ensure_file_exists(overlay)
    /\ UNCHANGED <<ret, lock, threads>>

TeAnauExpedition ==
    /\ pc = "idle"
    /\ \E days \in DaysParams :
        IF days < 2 \/ days > 10
        THEN Refuse("teanau_expedition", days)
        ELSE \/ Refuse("teanau_expedition", days)
             \/ \E obs \in SeqsUpTo(MoanaObs, Min(days, MaxDays)) :
                 LET daily == DailyBlock(obs, TRUE) IN
                 IF build_moana_day_summaries(daily).raised # "none"
                 THEN Refuse("teanau_expedition", days)
                 ELSE Answer("teanau_expedition", days, daily, TeAnauResult(load_config(overlay), daily))

WaikaiaTrip ==
    /\ pc = "idle"
    /\ \E days \in DaysParams :
        IF days < 1 \/ days > 10
        THEN Refuse("waikaia_trip", days)
        ELSE \/ Refuse("waikaia_trip", days)
             \/ \E obs \in SeqsUpTo(WaikaiaObs, Min(days, MaxDays)) :
                 LET daily == DailyBlock(obs, FALSE) IN
                 Answer("waikaia_trip", days, daily, WaikaiaResult(load_config(overlay), daily))

\* region and activity identifiers: those of the profile store and one unknown each
RegionIds == {"hunter", "te_anau", "waikaia", "fiordland"}
ActivityIds == {"boating_fizz", "boating_moana", "river_fishing", "surfing"}

\* thresholds an admin may store for an activity
Thresholds(len, go, maybe) ==
    [window_min_length |-> len, go_threshold |-> go, maybe_threshold |-> maybe]

TeAnauThresholds ==
    {Thresholds(2, 80, 75), Thresholds(2, 85, 65), Thresholds(2, 23, 10), Thresholds(1, 65, 85)}
WaikaiaThresholds == {Thresholds(2, 75, 70), Thresholds(2, 73, 70), Thresholds(1, 70, 80)}

\* bodies posted to /api/admin/config, as their "regions" object: complete
\* ones, one that leaves regions and fields out, one without any activity
AdminPosts ==
    {[hunter  |-> DEFAULT_CONFIG.hunter,
      te_anau |-> [boating_moana |-> t1],
      waikaia |-> [river_fishing |-> t2]] : t1 \in TeAnauThresholds, t2 \in WaikaiaThresholds}
    \cup {[hunter |-> [boating_fizz |-> [go_threshold |-> 85]]]}
    \cup {[hunter |-> <<>>]}

\* bodies posted to /api/admin/config: JSON objects with a "regions" object,
\* complete ones and one whose first region has no activities; an object
\* without "regions"; an object whose "regions" is no object; a JSON value
\* that is no object; a body that is no JSON
AdminBodies ==
    {[json |-> "object", regions |-> r] : r \in AdminPosts}
    \cup {[json |-> "object", regions |-> [hunter |-> <<>>, te_anau |-> DEFAULT_CONFIG.te_anau]]}
    \cup {[json |-> "object"], [json |-> "object", regions_is |-> "array"],
          [json |-> "array"], [json |-> "unparseable"]}

\* has_activities holding for every regions object
has_activities_Always(regions) == TRUE

\* has_activities: some region has a non-empty activities object
has_activities(regions) ==
    \E r \in DOMAIN regions : regions[r] # <<>>

\* the checks of update_admin_config that a body must pass to be saved
Validated(body) ==
    /\ body.json = "object"
    /\ "regions" \in DOMAIN body
    /\ has_activities(body.regions)

\* save_config when no other thread is inside: the file holds cfg
save_config(file, cfg) == cfg

\* update_admin_config: the body is saved whole when it passes the checks
UpdateAdminConfigWith(bodies) ==
    /\ pc = "idle"
    /\ \E body \in bodies :
        /\ call' = [op |-> "update_admin_config", body |-> body]
        /\ IF Validated(body)
           THEN overlay' = save_config(overlay, body.regions) /\ pc' = "returned"
           ELSE overlay' = overlay /\ pc' = "raised"
    /\ UNCHANGED <<ret, scored_days, windows, best_window, verdict, lock, threads>>

UpdateAdminConfig == UpdateAdminConfigWith(AdminBodies)

\* get_activity_thresholds called for any region and activity
GetActivityThresholdsCall ==
    /\ pc = "idle"
    /\ \E region_id \in RegionIds, activity_id \in ActivityIds :
        /\ call' = [op |-> "get_activity_thresholds", region_id |-> region_id,
                    activity_id |-> activity_id]
        /\ ret' = get_activity_thresholds(load_config(overlay), region_id, activity_id)
        /\ overlay' = _ensure_file_exists(overlay)
        /\ pc' = "returned"
    /\ UNCHANGED <<scored_days, windows, best_window, verdict, lock, threads>>

----------------------------------------------------------------------------
(* score_day and score_period called on bounded inputs *)

\* (wind_kmh, gust_kmh, rain_mm in tenths, temp_min, temp_max) of one day;
\* scored (hunter, te_anau, waikaia): (64, 66, 78), (73, 73, 81), (74, 76, 68), (75, 71, 74)
PeriodObs == {<<25, 40, 0, 10, 16>>, <<18, 30, 0, 4, 10>>, <<12, 20, 20, 0, 4>>, <<18, 30, 20, 20, 26>>}

DayWeather(date, o) ==
    [date |-> date, wind_kmh |-> o[1], gust_kmh |-> o[2], rain_mm |-> o[3],
     temp_min |-> o[4], temp_max |-> o[5]]

DayWeatherSeqs ==
    {[i \in 1..Len(os) |-> DayWeather(DateOf(i), os[i])] : os \in SeqsUpTo(PeriodObs, MaxDays)}

ScoreDayCall ==
    /\ pc = "idle"
    /\ \E region_id \in RegionIds, activity_id \in ActivityIds, o \in PeriodObs :
        LET r == score_day(region_id, activity_id, DayWeather(DateOf(1), o)) IN
        /\ call' = [op |-> "score_day", region_id |-> region_id, activity_id |-> activity_id,
                    day |-> DayWeather(DateOf(1), o)]
        /\ ret' = r
        /\ pc' = IF IsRaised(r) THEN "raised" ELSE "returned"
    /\ UNCHANGED <<overlay, scored_days, windows, best_window, verdict, lock, threads>>

ScorePeriodCall ==
    /\ pc = "idle"
    /\ \E region_id \in RegionIds, activity_id \in ActivityIds, days \in DayWeatherSeqs :
        LET r == score_period(region_id, activity_id, days) IN
        /\ call' = [op |-> "score_period", region_id |-> region_id,
                    activity_id |-> activity_id, days |-> days]
        /\ IF IsRaised(r)
           THEN /\ pc' = "raised"
                /\ ret' = r
                /\ UNCHANGED <<scored_days, windows, best_window, verdict>>
           ELSE /\ pc' = "returned"
                /\ scored_days' = r.days
                /\ windows' = r.windows
                /\ best_window' = r.best_window
                /\ verdict' = r.expedition_verdict
                /\ UNCHANGED ret
    /\ UNCHANGED <<overlay, lock, threads>>

----------------------------------------------------------------------------
(* Specifications *)

Init ==
    /\ IdleFrame
    /\ overlay = MissingFile
    /\ lock = NoThread
    /\ threads = [t \in Threads |-> IdleThread]

\* the window finder and the selector as functions of bounded inputs
NextWindows ==
    \/ FindWindowsCall
    \/ FindMultiDayWindowsCall
    \/ ChooseBestCall
    \/ Return

SpecWindows == Init /\ [][NextWindows]_vars

\* the expedition handlers and the admin update of the thresholds
Next ==
    \/ TeAnauExpedition
    \/ WaikaiaTrip
    \/ UpdateAdminConfig
    \/ GetActivityThresholdsCall
    \/ Return

Spec == Init /\ [][Next]_vars

\* the band scorers as functions of bounded inputs
NextBands ==
    \/ ScoreSimpleBandsCall
    \/ ScoreWindBandsCall
    \/ ScoreTempBandsCall
    \/ Return

SpecBands == Init /\ [][NextBands]_vars

\* the profile-driven scorer as a function of bounded inputs
NextPeriod ==
    \/ ScoreDayCall
    \/ ScorePeriodCall
    \/ Return

SpecPeriod == Init /\ [][NextPeriod]_vars

----------------------------------------------------------------------------
(* Properties of the window finder *)

FinderReturned ==
    pc = "returned" /\ call.op \in {"_find_windows", "find_multi_day_windows"}

\* the day qualifies under the floor of the finder call c
Qualifies(c, d) ==
    IF c.op = "_find_windows"
    THEN d.score >= c.min_score
    ELSE label_rank(d.label, 0) >= label_rank(c.min_label, 3)

\* position in the sequence of the day with the given date
Idx(date) == date - FirstDate + 1

RECURSIVE TotalLength(_)
TotalLength(ws) == IF ws = <<>> THEN 0 ELSE Head(ws).length + TotalLength(Tail(ws))

RECURSIVE TotalOver(_, _)
\* sum of the scores of the days at the positions in S
TotalOver(days, S) ==
    IF S = {} THEN 0
    ELSE LET i == CHOOSE j \in S : TRUE IN days[i].score + TotalOver(days, S \ {i})

\* s..e is a maximal run of qualifying days
IsMaximalRun(c, s, e) ==
    LET days == c.days IN
    /\ 1 <= s /\ s <= e /\ e <= Len(days)
    /\ \A i \in s..e : Qualifies(c, days[i])
    /\ (s > 1 => ~Qualifies(c, days[s - 1]))
    /\ (e < Len(days) => ~Qualifies(c, days[e + 1]))

\* the maximal runs of at least min_length days, as <<s, e>> pairs
LongRuns(c) ==
    {r \in (1..Len(c.days)) \X (1..Len(c.days)) :
        IsMaximalRun(c, r[1], r[2]) /\ r[2] - r[1] + 1 >= c.min_length}

\* C1: with min_length = 1 the lengths of the returned windows sum to the
\* number of qualifying days, and every window is maximal: the day before
\* its start and the day after its end do not qualify, and two consecutive
\* windows are separated by at least one day that does not qualify.
C1_LengthsSumAndMaximal ==
    (FinderReturned /\ call.min_length = 1) =>
        LET days == call.days
            Q(i) == Qualifies(call, days[i])
        IN  /\ TotalLength(ret) = Cardinality({i \in 1..Len(days) : Q(i)})
            /\ \A k \in 1..Len(ret) :
                LET s == Idx(ret[k].start_date)
                    e == Idx(ret[k].end_date)
                IN  /\ (s > 1 => ~Q(s - 1))
                    /\ (e < Len(days) => ~Q(e + 1))
            /\ \A k \in 1..(Len(ret) - 1) :
                \E i \in 1..Len(days) :
                    /\ Idx(ret[k].end_date) < i
                    /\ i < Idx(ret[k + 1].start_date)
                    /\ ~Q(i)

\* two windows around a disqualifying day, found with min_length = 1
C1_Witness ==
    /\ FinderReturned
    /\ call.op = "_find_windows"
    /\ call.min_length = 1
    /\ Len(call.days) = 4
    /\ Len(ret) = 2
    /\ TotalLength(ret) = 3

\* number of qualifying days at the end of the sequence
TrailingRun(c) ==
    LET days == c.days
        n == Len(days)
        ks == {k \in 0..n : \A i \in (n - k + 1)..n : Qualifies(c, days[i])}
    IN  CHOOSE k \in ks : \A j \in ks : j <= k

\* C2: when the sequence ends with a run of k >= min_length qualifying days,
\* the last returned window has length k and ends on the date of the final
\* day of the sequence.
C2_TrailingRunKept ==
    (FinderReturned /\ TrailingRun(call) >= call.min_length /\ TrailingRun(call) >= 1) =>
        /\ Len(ret) >= 1
        /\ ret[Len(ret)].length = TrailingRun(call)
        /\ ret[Len(ret)].end_date = call.days[Len(call.days)].date

\* three days of score 90, min_score 80, min_length 2: one window of length 3
C2_Witness ==
    /\ FinderReturned
    /\ call.op = "_find_windows"
    /\ Len(call.days) = 3
    /\ \A i \in 1..3 : call.days[i].score = 90
    /\ call.min_score = 80
    /\ call.min_length = 2
    /\ Len(ret) = 1
    /\ ret[1].length = 3

\* C3: the finder returns, from left to right, exactly one window per maximal
\* run of qualifying days of length >= min_length and none for shorter runs;
\* the window carries the dates of the run's first and last day, its day
\* count and the arithmetic mean of its day scores.  An empty sequence gives
\* an empty list.
C3_OneWindowPerLongRun ==
    FinderReturned =>
        LET days == call.days
            runs == LongRuns(call)
        IN  /\ Len(ret) = Cardinality(runs)
            /\ \A r \in runs :
                LET k == Cardinality({q \in runs : q[1] <= r[1]})
                    w == ret[k]
                IN  /\ w.start_date = days[r[1]].date
                    /\ w.end_date = days[r[2]].date
                    /\ w.length = r[2] - r[1] + 1
                    /\ w.avg_score.n * w.length = TotalOver(days, r[1]..r[2]) * w.avg_score.d
            /\ (days = <<>> => ret = <<>>)

\* a short run is skipped, a long one with a fractional mean is returned
C3_Witness ==
    /\ FinderReturned
    /\ call.min_length = 2
    /\ Len(call.days) = 4
    /\ Qualifies(call, call.days[1])
    /\ ~Qualifies(call, call.days[2])
    /\ Len(ret) = 1
    /\ ret[1].length = 2
    /\ ret[1].avg_score.d = 2

----------------------------------------------------------------------------
(* Properties of the window selector *)

ChooserReturned ==
    pc = "returned" /\ call.op \in {"_choose_best_window", "choose_best_window"}

\* C4: choose_best returns None exactly when the list is empty; otherwise a
\* member of the list such that no window is longer and no window of the
\* same length has a greater avg_score.
C4_LongestThenBestScore ==
    ChooserReturned =>
        LET ws == call.windows IN
        /\ (ret = None) <=> (ws = <<>>)
        /\ ws # <<>> =>
            /\ \E k \in 1..Len(ws) : ws[k] = ret
            /\ \A j \in 1..Len(ws) :
                /\ ws[j].length <= ret.length
                /\ (ws[j].length = ret.length => FracLeq(ws[j].avg_score, ret.avg_score))

\* length 5 / avg 40 wins over length 3 / avg 60
C4_Witness ==
    /\ ChooserReturned
    /\ Len(call.windows) = 2
    /\ call.windows[1].length = 3 /\ call.windows[1].avg_score = Frac(60, 1)
    /\ call.windows[2].length = 5 /\ call.windows[2].avg_score = Frac(40, 1)
    /\ ret = call.windows[2]

----------------------------------------------------------------------------
(* Properties of the verdict under the threshold overlay *)

OverlayHandlerReturned ==
    pc = "returned" /\ call.op \in {"teanau_expedition", "waikaia_trip"}

\* the overlay thresholds the handler being served reads
HandlerThresholds ==
    IF call.op = "teanau_expedition"
    THEN get_activity_thresholds(overlay, "te_anau", "boating_moana")
    ELSE get_activity_thresholds(overlay, "waikaia", "river_fishing")

\* a is round(f): the nearest integer, the even one of two nearest
IsRounded(f, a) ==
    /\ 2 * Abs(f.n - a * f.d) <= f.d
    /\ (2 * Abs(f.n - a * f.d) = f.d => a % 2 = 0)

\* C5: under the threshold overlay the verdict is no-window exactly when
\* there is no best window; otherwise, with a = round(avg_score), it is go if
\* a >= go_threshold, else maybe-go if a >= maybe_threshold, else hold; a
\* equal to a threshold gets the tier of that threshold.
C5_OverlayVerdict ==
    OverlayHandlerReturned =>
        LET t == HandlerThresholds IN
        /\ (verdict = "no-window") <=> (best_window = None)
        /\ best_window # None =>
            \E a \in 0..100 :
                /\ IsRounded(best_window.avg_score, a)
                /\ (a >= t.go_threshold => verdict = "go")
                /\ (a < t.go_threshold /\ a >= t.maybe_threshold => verdict = "maybe-go")
                /\ (a < t.go_threshold /\ a < t.maybe_threshold => verdict = "hold")
                /\ (a = t.go_threshold => verdict = "go")
                /\ (a = t.maybe_threshold /\ a < t.go_threshold => verdict = "maybe-go")

\* a best window whose rounded average equals go_threshold is answered go
C5_Witness ==
    /\ OverlayHandlerReturned
    /\ best_window # None
    /\ Round(best_window.avg_score) = HandlerThresholds.go_threshold
    /\ verdict = "go"

----------------------------------------------------------------------------
(* Properties of the band scorers *)

\* the least element of a non-empty set of positions
Least(S) == CHOOSE i \in S : \A j \in S : i <= j

\* r carries the score, label and description of band b
IsInfoOf(r, b) ==
    /\ r.score = b.score
    /\ r.label = b.label
    /\ r.description = b.description

\* C8: for a non-empty list of single-value bands the scorer returns the
\* score, label and description of the first band in list order whose max
\* is >= value and, when no band's max is >= value, those of the last band.
\* A value below every max selects the first band, a value above every max
\* the last.
C8_SimpleFirstMatchElseLast ==
    (pc = "returned" /\ call.op = "_score_simple_bands" /\ call.bands # <<>>) =>
        LET bands == call.bands
            value == call.value
            n == Len(bands)
            withMax == {i \in 1..n : "max" \in DOMAIN bands[i]}
            M == {i \in withMax : bands[i].max >= value}
        IN  /\ IsInfoOf(ret, bands[IF M = {} THEN n ELSE Least(M)])
            /\ (withMax = 1..n /\ (\A i \in 1..n : value < bands[i].max)
                    => IsInfoOf(ret, bands[1]))
            /\ ((\A i \in withMax : value > bands[i].max) => IsInfoOf(ret, bands[n]))

\* the value equals the max of the second band, past the max of the first
C8_Witness ==
    /\ pc = "returned" /\ call.op = "_score_simple_bands"
    /\ Len(call.bands) = 3
    /\ \A i \in 1..3 : "max" \in DOMAIN call.bands[i]
    /\ call.bands[1].max < call.value
    /\ call.bands[2].max = call.value
    /\ call.bands[3].max > call.value
    /\ ret.score = call.bands[2].score
    /\ ret.score # call.bands[3].score

\* C9: for paired wind/gust bands the scorer returns the first band in list
\* order with wind <= max_wind and gust <= max_gust; a band covering only
\* one of the two values is not selected; when no band covers both, the
\* last band of the list is returned.
C9_WindBothCeilings ==
    (pc = "returned" /\ call.op = "_score_wind_bands" /\ call.bands # <<>>) =>
        LET bands == call.bands
            n == Len(bands)
            windOk(i) == call.wind_kmh <= Get(bands[i], "max_wind", 999)
            gustOk(i) == call.gust_kmh <= Get(bands[i], "max_gust", 999)
            M == {i \in 1..n : windOk(i) /\ gustOk(i)}
        IN  /\ IsInfoOf(ret, bands[IF M = {} THEN n ELSE Least(M)])
            /\ \A i \in 1..n :
                (M # {} /\ windOk(i) # gustOk(i) /\ ~IsInfoOf(bands[Least(M)], bands[i]))
                    => ~IsInfoOf(ret, bands[i])

\* the first band covers the wind but not the gust; the second covers both
C9_Witness ==
    /\ pc = "returned" /\ call.op = "_score_wind_bands"
    /\ Len(call.bands) >= 2
    /\ call.wind_kmh <= Get(call.bands[1], "max_wind", 999)
    /\ call.gust_kmh > Get(call.bands[1], "max_gust", 999)
    /\ call.gust_kmh <= Get(call.bands[2], "max_gust", 999)
    /\ IsInfoOf(ret, call.bands[2])
    /\ ~IsInfoOf(ret, call.bands[1])

\* C10: with m = (temp_min + temp_max) / 2 the scorer returns the first band
\* in list order with min <= m <= max; when no band contains m, the band
\* whose midpoint (min + max) / 2 is nearest to m, the earliest in the list
\* among bands at equal distance.
C10_TempContainsElseClosest ==
    (pc = "returned" /\ call.op = "_score_temp_bands" /\ call.bands # <<>>) =>
        LET bands == call.bands
            n == Len(bands)
            m2 == call.temp_min + call.temp_max
            lo(i) == Get(bands[i], "min", -999)
            hi(i) == Get(bands[i], "max", 999)
            dist2(i) == Abs((lo(i) + hi(i)) - m2)
            C == {i \in 1..n : 2 * lo(i) <= m2 /\ m2 <= 2 * hi(i)}
            N == {i \in 1..n : \A j \in 1..n : dist2(i) <= dist2(j)}
        IN  IsInfoOf(ret, bands[IF C # {} THEN Least(C) ELSE Least(N)])

\* no band contains the average and two bands are equally near: the earlier wins
C10_Witness ==
    /\ pc = "returned" /\ call.op = "_score_temp_bands"
    /\ Len(call.bands) = 2
    /\ call.temp_min + call.temp_max = 12
    /\ call.bands[1].score # call.bands[2].score
    /\ \A i \in 1..2 : ~TempCovers(12, call.bands[i])
    /\ TempDelta(12, call.bands[1]) = TempDelta(12, call.bands[2])
    /\ IsInfoOf(ret, call.bands[1])

----------------------------------------------------------------------------
(* Properties of score_period *)

PeriodReturned == pc = "returned" /\ call.op = "score_period"

\* window_logic of the profile the call names
CallWindowLogic ==
    REGION_PROFILES[call.region_id].activities[call.activity_id].window_logic

\* C6 as stated: the verdict is no-window exactly when no window was found,
\* go exactly when the best window has length >= min_good_days and
\* round(avg_score) >= min_score_for_good + 10, and maybe-go otherwise.
C6_GoOnRoundedAverage ==
    PeriodReturned =>
        LET wl == CallWindowLogic IN
        /\ (verdict = "no-window") <=> (windows = <<>>)
        /\ (verdict = "go") <=>
            IF best_window = None THEN FALSE
            ELSE /\ best_window.length >= wl.min_good_days
                 /\ \E a \in 0..100 :
                        IsRounded(best_window.avg_score, a) /\ a >= wl.min_score_for_good + 10
        /\ verdict \in {"no-window", "go", "maybe-go"}

\* C6, amended: the verdict is no-window exactly when no window was found,
\* go exactly when the best window has length >= min_good_days and its
\* unrounded avg_score >= min_score_for_good + 10, and maybe-go in every
\* remaining case; it is never hold.
C6_GoOnExactAverage ==
    PeriodReturned =>
        LET wl == CallWindowLogic IN
        /\ (verdict = "no-window") <=> (windows = <<>>)
        /\ (verdict = "go") <=>
            IF best_window = None THEN FALSE
            ELSE /\ best_window.length >= wl.min_good_days
                 /\ best_window.avg_score.n >= (wl.min_score_for_good + 10) * best_window.avg_score.d
        /\ verdict \in {"no-window", "go", "maybe-go"}

\* a best window whose average rounds up to min_score_for_good + 10 without
\* reaching it is answered maybe-go
C6_Witness ==
    /\ PeriodReturned
    /\ best_window # None
    /\ best_window.length >= CallWindowLogic.min_good_days
    /\ Round(best_window.avg_score) = CallWindowLogic.min_score_for_good + 10
    /\ FracLt(best_window.avg_score, Frac(CallWindowLogic.min_score_for_good + 10, 1))
    /\ verdict = "maybe-go"

\* the call names a region the profile store lacks, or an activity the
\* region lacks
UnknownIds ==
    \/ call.region_id \notin DOMAIN REGION_PROFILES
    \/ call.activity_id \notin DOMAIN REGION_PROFILES[call.region_id].activities

\* C7: score_period and score_day called with an unknown region_id, or with
\* an activity_id the region does not define, raise an error to the caller
\* with no day scored, no window searched and no verdict produced; with
\* known identifiers they do not raise.
C7_UnknownIdsRaise ==
    (pc # "idle" /\ call.op \in {"score_period", "score_day"}) =>
        IF UnknownIds
        THEN /\ pc = "raised"
             /\ ret = Raised("ValueError")
             /\ scored_days = <<>>
             /\ windows = <<>>
             /\ best_window = None
             /\ verdict = Unset
        ELSE pc = "returned"

\* score_period refuses an activity that only another region defines
C7_Witness ==
    /\ pc = "raised"
    /\ call.op = "score_period"
    /\ call.region_id = "hunter"
    /\ call.activity_id = "boating_moana"
    /\ Len(call.days) = 2
    /\ scored_days = <<>>
    /\ verdict = Unset

----------------------------------------------------------------------------
(* score_day on profiles as an edited profile store may hold them *)

\* a dict without key k, and with key k set to v
WithoutKey(d, k) == [x \in DOMAIN d \ {k} |-> d[x]]
WithKey(d, k, v) == [x \in DOMAIN d \cup {k} |-> IF x = k THEN v ELSE d[x]]

Hunter == REGION_PROFILES.hunter.activities.boating_fizz
TeAnau == REGION_PROFILES.te_anau.activities.boating_moana
Waikaia == REGION_PROFILES.waikaia.activities.river_fishing

\* a single-value band that forgot its max
BandWithoutMax == [score |-> 10, label |-> "odd", description |-> "No max."]

\* the three profiles of the store, and variants of them: flow weighted
\* without flow_bands, no weights, only cloud weighted, a weighted category
\* without its band list, rain bands led by or made of a band without max
Profiles ==
    {Hunter, TeAnau, Waikaia,
     WithoutKey(Waikaia, "flow_bands"),
     WithoutKey(Hunter, "weights"),
     WithKey(Waikaia, "weights", [wind |-> 0, rain |-> 0, temp |-> 0, cloud |-> 10, flow |-> 0]),
     WithoutKey(Hunter, "wind_bands"),
     WithoutKey(TeAnau, "temp_bands"),
     WithKey(Hunter, "rain_bands", <<BandWithoutMax>> \o Hunter.rain_bands),
     WithKey(Hunter, "rain_bands", <<BandWithoutMax>>)}

\* (wind_kmh, gust_kmh, rain_mm in tenths, temp_min, temp_max) of one day
DayObs == PeriodObs \cup {<<5, 60, 60, 0, 26>>, <<5, 20, 60, 0, 4>>}

\* river flows a day may carry
FlowValues == {12, 30}

\* days with every field, with a river flow, without temperatures, with
\* temp_c in their place
Days ==
    LET full(o) == DayWeather(DateOf(1), o)
        bare(o) == WithoutKey(WithoutKey(full(o), "temp_min"), "temp_max")
    IN  {full(o) : o \in DayObs}
        \cup {WithKey(full(o), "river_flow", f) : o \in DayObs, f \in FlowValues}
        \cup {bare(o) : o \in DayObs}
        \cup {WithKey(bare(o), "temp_c", o[5]) : o \in DayObs}

\* score_day once the lookup has found profile
ScoreDayProfileCall ==
    /\ pc = "idle"
    /\ \E profile \in Profiles, day \in Days :
        /\ call' = [op |-> "score_day", profile |-> profile, day |-> day]
        /\ ret' = ScoredDay(profile, day)
        /\ pc' = "returned"
    /\ UNCHANGED <<overlay, scored_days, windows, best_window, verdict, lock, threads>>

NextDay ==
    \/ ScoreDayProfileCall
    \/ Return

SpecDay == Init /\ [][NextDay]_vars

----------------------------------------------------------------------------
(* Properties of score_day *)

\* score_day was called on call.profile and call.day and has ended
DayCalled == call.op = "score_day" /\ "profile" \in DOMAIN call
DayScored == DayCalled /\ pc = "returned"

Weight(profile, c) == Get(Get(profile, "weights", <<>>), c, 0)

\* the categories that enter the mean
Contributing(profile) ==
    {c \in {"wind", "rain", "temp"} : Weight(profile, c) > 0}
    \cup {c \in {"flow"} : Weight(profile, c) > 0 /\ "flow_bands" \in DOMAIN profile}

\* sum of weight, or of weight times returned sub-score, over the contributing categories
WeightSum(profile) ==
    LET term(c) == IF c \in Contributing(profile) THEN Weight(profile, c) ELSE 0
    IN  term("wind") + term("rain") + term("temp") + term("flow")

ScoreSum(profile, reasons) ==
    LET term(c) == IF c \in Contributing(profile) THEN Weight(profile, c) * reasons[c].score ELSE 0
    IN  term("wind") + term("rain") + term("temp") + term("flow")

\* C11: when some category contributes, the returned score is the rounding
\* of sum(weight * sub-score) / sum(weight) taken over exactly the
\* contributing categories: wind, rain and temp when their weight is
\* positive, flow when its weight is positive and the profile has
\* flow_bands; the weight of cloud and of a flow without flow_bands is not
\* in the denominator.
C11_WeightedMean ==
    DayScored /\ Contributing(call.profile) # {} =>
        IsRounded(Frac(ScoreSum(call.profile, ret.reasons), WeightSum(call.profile)), ret.score)

\* a day with a river flow scored against a profile that weighs cloud and
\* flow but has no flow_bands
C11_Witness ==
    /\ DayScored
    /\ Weight(call.profile, "cloud") > 0
    /\ Weight(call.profile, "flow") > 0
    /\ "flow_bands" \notin DOMAIN call.profile
    /\ "river_flow" \in DOMAIN call.day
    /\ Contributing(call.profile) = {"wind", "rain", "temp"}

\* C12 as stated: when no category contributes, score_day returns score 50
\* with label "unknown".
C12_NoWeightsUnknown ==
    DayCalled /\ pc # "idle" /\ Contributing(call.profile) = {} =>
        pc = "returned" /\ ret.score = 50 /\ ret.label = "unknown"

\* C12 amended: when no category contributes, score_day does not raise and
\* returns score 50 with the label of 50 on the fixed scale, "marginal".
C12_NoWeightsMarginal ==
    DayCalled /\ pc # "idle" /\ Contributing(call.profile) = {} =>
        pc = "returned" /\ ret.score = 50 /\ ret.label = "marginal"

\* a day scored against a profile whose only positive weight is cloud
C12_Witness ==
    /\ DayScored
    /\ Weight(call.profile, "cloud") > 0
    /\ Contributing(call.profile) = {}

\* the tier of an integer score on the fixed scale
TierOf(n) ==
    CASE n >= 85 -> "excellent"
      [] n >= 70 /\ n < 85 -> "good"
      [] n >= 55 /\ n < 70 -> "ok"
      [] n >= 40 /\ n < 55 -> "marginal"
      [] n < 40 -> "no-go"

\* C13: the returned score is an integer in 0..100 and the returned label is
\* the tier of that returned score.
C13_LabelOfReturnedScore ==
    DayScored => ret.score \in 0..100 /\ ret.label = TierOf(ret.score)

\* the key of a category's band list
BandsKey(c) ==
    CASE c = "wind" -> "wind_bands"
      [] c = "rain" -> "rain_bands"
      [] c = "temp" -> "temp_bands"
      [] c = "cloud" -> "cloud_bands"
      [] c = "flow" -> "flow_bands"

\* the weighted categories without a band list
Unbanded(profile) ==
    {c \in {"wind", "rain", "temp", "cloud", "flow"} :
        Weight(profile, c) > 0 /\ Get(profile, BandsKey(c), <<>>) = <<>>}

\* the weighted single-value categories with a band that lacks max
Maxless(profile) ==
    {c \in {"rain", "flow"} \cap Contributing(profile) :
        \E i \in DOMAIN Get(profile, BandsKey(c), <<>>) : "max" \notin DOMAIN profile[BandsKey(c)][i]}

\* C14 as stated: a weighted category without band list or with a band
\* lacking max makes score_day raise.
C14_BadBandsRaise ==
    DayCalled /\ pc # "idle" /\ Unbanded(call.profile) \cup Maxless(call.profile) # {} =>
        pc = "raised"

\* C14 amended: score_day does not raise for such a profile.  Cloud and
\* flow without band list get no sub-score and stay out of the mean; wind,
\* rain and temp without band list get the sub-score 50 with label
\* "unknown", which enters the mean with the category's weight; a rain band
\* lacking max is passed over, the first band whose max covers the rain
\* being chosen, and the last band of the list when none does.
C14_BadBandsDefaulted ==
    DayCalled /\ pc # "idle" /\ Unbanded(call.profile) \cup Maxless(call.profile) # {} =>
        /\ pc = "returned"
        /\ \A c \in Unbanded(call.profile) :
            IF c \in {"cloud", "flow"}
            THEN c \notin DOMAIN ret.reasons /\ c \notin Contributing(call.profile)
            ELSE /\ ret.reasons[c].score = 50
                 /\ ret.reasons[c].label = "unknown"
                 /\ c \in Contributing(call.profile)
        /\ Contributing(call.profile) # {} =>
            IsRounded(Frac(ScoreSum(call.profile, ret.reasons), WeightSum(call.profile)), ret.score)
        /\ "rain" \in Maxless(call.profile) =>
            LET bands == call.profile.rain_bands
                covering == {i \in DOMAIN bands :
                                "max" \in DOMAIN bands[i] /\ Get(call.day, "rain_mm", 0) <= bands[i].max}
            IN  IsInfoOf(ret.reasons.rain, bands[IF covering # {} THEN Least(covering) ELSE Len(bands)])

\* a day scored against a profile that weighs wind and has no wind_bands
C14_Witness ==
    /\ DayScored
    /\ "wind" \in Unbanded(call.profile)
    /\ ret.reasons.wind.score = 50

\* the day lacks both temperatures, or any flow reading
LacksTemp(day) == "temp_min" \notin DOMAIN day /\ "temp_max" \notin DOMAIN day
LacksFlow(day) == "river_flow" \notin DOMAIN day /\ "flow" \notin DOMAIN day

\* C15 as stated: a day lacking its temperatures, or its river flow under a
\* profile that scores flow, is scored without raising and the category's
\* sub-score is the neutral 50.
C15_MissingFieldNeutral ==
    DayCalled /\ pc # "idle" =>
        /\ pc = "returned"
        /\ LacksTemp(call.day) /\ "temp" \in Contributing(call.profile) =>
            ret.reasons.temp.score = 50
        /\ LacksFlow(call.day) /\ "flow" \in Contributing(call.profile) =>
            ret.reasons.flow.score = 50

\* C15 amended: such a day is scored without raising, and the category's
\* sub-score is the one of the same day carrying the substituted value:
\* temp_c, or 0 without it, for both temperatures, and 0 for the flow.
C15_MissingFieldSubstituted ==
    DayCalled /\ pc # "idle" =>
        /\ pc = "returned"
        /\ LacksTemp(call.day) =>
            LET t == Get(call.day, "temp_c", 0)
                filled == WithKey(WithKey(call.day, "temp_min", t), "temp_max", t)
            IN  ret.reasons.temp = ScoredDay(call.profile, filled).reasons.temp
        /\ LacksFlow(call.day) /\ "flow" \in Contributing(call.profile) =>
            ret.reasons.flow = ScoredDay(call.profile, WithKey(call.day, "river_flow", 0)).reasons.flow

\* a day without flow reading scored against the river profile: the flow
\* sub-score is the 95 of the band that covers 0
C15_Witness ==
    /\ DayScored
    /\ LacksFlow(call.day)
    /\ "flow" \in Contributing(call.profile)
    /\ ret.reasons.flow.score = 95

----------------------------------------------------------------------------
(* Properties of the threshold overlay *)

\* get_activity_thresholds was called and has ended
ThresholdsCalled == call.op = "get_activity_thresholds" /\ pc # "idle"

\* the default of each threshold field
FieldDefault(field) ==
    CASE field = "window_min_length" -> 2
      [] field = "go_threshold" -> 80
      [] field = "maybe_threshold" -> 70

ThresholdFields == {"window_min_length", "go_threshold", "maybe_threshold"}

\* C16: for a pair without entry in the stored overlay the lookup returns
\* window_min_length 2, go_threshold 80, maybe_threshold 70 without raising;
\* for a pair with an entry it returns each field the entry has as stored
\* and the default of each field the entry lacks.
C16_ThresholdDefaults ==
    ThresholdsCalled =>
        /\ pc = "returned"
        /\ DOMAIN ret = ThresholdFields
        /\ IF call.region_id \in DOMAIN overlay /\ call.activity_id \in DOMAIN overlay[call.region_id]
           THEN LET entry == overlay[call.region_id][call.activity_id] IN
                \A field \in ThresholdFields :
                    ret[field] = IF field \in DOMAIN entry THEN entry[field] ELSE FieldDefault(field)
           ELSE \A field \in ThresholdFields : ret[field] = FieldDefault(field)

\* the lookup of an entry that stores go_threshold only
C16_Witness ==
    /\ ThresholdsCalled
    /\ pc = "returned"
    /\ call.region_id \in DOMAIN overlay
    /\ call.activity_id \in DOMAIN overlay[call.region_id]
    /\ DOMAIN overlay[call.region_id][call.activity_id] = {"go_threshold"}
    /\ ret.go_threshold = overlay[call.region_id][call.activity_id].go_threshold
    /\ ret.go_threshold # FieldDefault("go_threshold")
    /\ ret.maybe_threshold = FieldDefault("maybe_threshold")

\* the configuration a reader finds stored
StoredConfig == load_config(overlay)

\* some region of cfg has some activity
HasRegionWithActivity(cfg) ==
    \E r \in DOMAIN cfg : \E a \in DOMAIN cfg[r] : TRUE

\* the body is a JSON object whose "regions" object has a region with activities
WellFormed(body) ==
    /\ body.json = "object"
    /\ "regions" \in DOMAIN body
    /\ HasRegionWithActivity(body.regions)

\* C17: the stored configuration has a region with an activity at the start
\* and after every step; an admin update whose body fails validation is
\* refused and leaves the file as it was, and one whose body passes is
\* stored whole.
C17_ValidatedReplacement ==
    /\ []HasRegionWithActivity(StoredConfig)
    /\ [][call'.op = "update_admin_config" /\ pc = "idle" =>
            IF WellFormed(call'.body)
            THEN pc' = "returned" /\ overlay' = call'.body.regions
            ELSE pc' = "raised" /\ overlay' = overlay]_vars

\* an update without activities was refused while the file held a
\* configuration posted before
C17_Witness ==
    /\ call.op = "update_admin_config"
    /\ pc = "raised"
    /\ "regions" \in DOMAIN call.body
    /\ ~HasRegionWithActivity(call.body.regions)
    /\ overlay \notin {MissingFile, DEFAULT_CONFIG}

----------------------------------------------------------------------------
(* scoring_config: threads inside load_config and save_config *)
(* A thread's record holds its position pc, the function op it called,    *)
(* the argument cfg of save_config, the value got that load_config        *)
(* returns and the value out that get_activity_thresholds returns.        *)

\* the file after open("w") and before anything is written, and with a
\* part of the JSON text of cfg written
TruncatedFile == [truncated |-> TRUE]
PartialFile(cfg) == [partial |-> cfg]

\* the file holds a whole JSON text
IsComplete(file) ==
    /\ file \notin {MissingFile, TruncatedFile}
    /\ "partial" \notin DOMAIN file

\* configurations handed to save_config
SavedConfigs == {[te_anau |-> [boating_moana |-> t]] : t \in TeAnauThresholds}

\* the other variables of the model, which the threads leave alone
frame == <<pc, call, ret, scored_days, windows, best_window, verdict>>

\* the record of thread t changes to r
Step(t, r) == threads' = [threads EXCEPT ![t] = r]

\* a thread calls load_config, directly or through get_activity_thresholds
CallLoad(t) ==
    /\ threads[t].pc = "idle"
    /\ \E op \in {"load_config", "get_activity_thresholds"} :
        Step(t, [IdleThread EXCEPT !.pc = "lock", !.op = op])
    /\ UNCHANGED <<overlay, lock, frame>>

\* a thread calls save_config(cfg)
CallSave(t) ==
    /\ threads[t].pc = "idle"
    /\ \E cfg \in SavedConfigs :
        Step(t, [IdleThread EXCEPT !.pc = "lock", !.op = "save_config", !.cfg = cfg])
    /\ UNCHANGED <<overlay, lock, frame>>

\* entering "with _CONFIG_LOCK" without waiting for the lock
Acquire_NoWait(t) ==
    /\ threads[t].pc = "lock"
    /\ lock' = t
    /\ Step(t, [threads[t] EXCEPT !.pc = "ensure"])
    /\ UNCHANGED <<overlay, frame>>

\* with _CONFIG_LOCK: the thread waits until the lock is free and takes it
Acquire(t) ==
    /\ threads[t].pc = "lock"
    /\ lock = NoThread
    /\ lock' = t
    /\ Step(t, [threads[t] EXCEPT !.pc = "ensure"])
    /\ UNCHANGED <<overlay, frame>>

\* _ensure_file_exists()
EnsureFileExists(t) ==
    /\ threads[t].pc = "ensure"
    /\ overlay' = _ensure_file_exists(overlay)
    /\ Step(t, [threads[t] EXCEPT !.pc = IF threads[t].op = "save_config" THEN "open" ELSE "read"])
    /\ UNCHANGED <<lock, frame>>

\* load_config: open("r") and json.load, which raises on a text that is not whole
ReadFile(t) ==
    /\ threads[t].pc = "read"
    /\ Step(t, [threads[t] EXCEPT !.pc = "unlock",
                                  !.got = IF IsComplete(overlay) THEN overlay
                                          ELSE Raised("JSONDecodeError")])
    /\ UNCHANGED <<overlay, lock, frame>>

\* save_config: open("w") empties the file
OpenWrite(t) ==
    /\ threads[t].pc = "open"
    /\ overlay' = TruncatedFile
    /\ Step(t, [threads[t] EXCEPT !.pc = "dump"])
    /\ UNCHANGED <<lock, frame>>

\* save_config: json.dump writes the text piece by piece
JsonDump(t) ==
    /\ threads[t].pc = "dump"
    /\ overlay' = PartialFile(threads[t].cfg)
    /\ Step(t, [threads[t] EXCEPT !.pc = "close"])
    /\ UNCHANGED <<lock, frame>>

\* save_config: the last piece is written and the file closed
CloseWrite(t) ==
    /\ threads[t].pc = "close"
    /\ overlay' = threads[t].cfg
    /\ Step(t, [threads[t] EXCEPT !.pc = "unlock"])
    /\ UNCHANGED <<lock, frame>>

\* leaving "with _CONFIG_LOCK"
Release(t) ==
    /\ threads[t].pc = "unlock"
    /\ lock' = NoThread
    /\ Step(t, [threads[t] EXCEPT !.pc = IF threads[t].op = "get_activity_thresholds"
                                         THEN "lookup" ELSE "done"])
    /\ UNCHANGED <<overlay, frame>>

\* get_activity_thresholds: the fields are looked up in the loaded configuration
Lookup(t) ==
    /\ threads[t].pc = "lookup"
    /\ Step(t, [threads[t] EXCEPT !.pc = "done",
                                  !.out = IF IsRaised(threads[t].got) THEN threads[t].got
                                          ELSE get_activity_thresholds(threads[t].got, "te_anau", "boating_moana")])
    /\ UNCHANGED <<overlay, lock, frame>>

\* the function returns to its caller
ThreadReturn(t) ==
    /\ threads[t].pc = "done"
    /\ Step(t, IdleThread)
    /\ UNCHANGED <<overlay, lock, frame>>

NextConfig ==
    \/ \E t \in Threads : CallLoad(t)
    \/ \E t \in Threads : CallSave(t)
    \/ \E t \in Threads : Acquire(t)
    \/ \E t \in Threads : EnsureFileExists(t)
    \/ \E t \in Threads : ReadFile(t)
    \/ \E t \in Threads : OpenWrite(t)
    \/ \E t \in Threads : JsonDump(t)
    \/ \E t \in Threads : CloseWrite(t)
    \/ \E t \in Threads : Release(t)
    \/ \E t \in Threads : Lookup(t)
    \/ \E t \in Threads : ThreadReturn(t)

SpecConfig == Init /\ [][NextConfig]_vars

\* the positions between taking and leaving the lock, and those of a write
Inside == {"ensure", "read", "open", "dump", "close", "unlock"}

\* the whole configurations: the default and the arguments of save_config
WholeConfigs == {DEFAULT_CONFIG} \cup SavedConfigs

\* C18: at most one thread is inside the lock, and it is the holder; what
\* load_config returns is never an error or a partly written text but the
\* whole file as it stands when read, which is the default or the argument
\* of a save_config; get_activity_thresholds returns the thresholds of such
\* a whole configuration.
C18_ReadsAreWhole ==
    /\ \A t, u \in Threads :
        threads[t].pc \in Inside /\ threads[u].pc \in Inside => t = u /\ lock = t
    /\ \A t \in Threads :
        /\ threads[t].got # None => threads[t].got \in WholeConfigs
        /\ threads[t].pc = "unlock" /\ threads[t].op # "save_config" => threads[t].got = overlay
        /\ threads[t].out # None =>
            \E cfg \in WholeConfigs :
                threads[t].out = [f \in ThresholdFields |->
                    IF "te_anau" \in DOMAIN cfg /\ f \in DOMAIN cfg.te_anau.boating_moana
                    THEN cfg.te_anau.boating_moana[f] ELSE FieldDefault(f)]

\* a reader has read the configuration of a finished save_config while
\* another thread waits to write
C18_Witness ==
    \E t, u \in Threads :
        /\ threads[t].pc = "unlock"
        /\ threads[t].op = "get_activity_thresholds"
        /\ threads[t].got \in SavedConfigs
        /\ threads[u].pc = "lock"
        /\ threads[u].op = "save_config"
        /\ threads[u].cfg # threads[t].got

----------------------------------------------------------------------------
(* Scoring calls beside admin updates *)

NextScoring ==
    \/ ScorePeriodCall
    \/ GetActivityThresholdsCall
    \/ UpdateAdminConfig
    \/ Return

SpecScoring == Init /\ [][NextScoring]_vars

\* the step is a call of score_period or of get_activity_thresholds
ScoringStep ==
    pc = "idle" /\ call'.op \in {"score_period", "get_activity_thresholds"}

\* C20 as stated: score_period and get_activity_thresholds leave the file
\* of the overlay as it was, and the day records handed in as they were.
C20_OnlyReads ==
    [][ScoringStep =>
        /\ overlay' = overlay
        /\ call'.op = "score_period" /\ pc' = "returned" =>
            \A i \in DOMAIN call'.days : scored_days'[i].raw = call'.days[i]]_vars

\* C20 amended: score_period leaves the file as it was; so does
\* get_activity_thresholds when the file exists, and when it is missing the
\* lookup creates it holding the default configuration; in both cases a
\* reader finds the same stored configuration before and after, and the
\* day records handed in come back as they were.
C20_ReadsOrCreatesDefault ==
    [][ScoringStep =>
        /\ call'.op = "score_period" => overlay' = overlay
        /\ call'.op = "get_activity_thresholds" =>
            IF overlay = MissingFile THEN overlay' = DEFAULT_CONFIG ELSE overlay' = overlay
        /\ StoredConfig' = StoredConfig
        /\ call'.op = "score_period" /\ pc' = "returned" =>
            \A i \in DOMAIN call'.days : scored_days'[i].raw = call'.days[i]]_vars

\* thresholds were looked up while the file held a configuration posted by
\* the admin, and it still holds one
C20_Witness ==
    /\ call.op = "get_activity_thresholds"
    /\ pc = "returned"
    /\ overlay \notin {MissingFile, DEFAULT_CONFIG}
    /\ ret = get_activity_thresholds(overlay, call.region_id, call.activity_id)

----------------------------------------------------------------------------
(* score_period on a wind-only profile *)

\* a profile that weighs wind alone, with two wind bands
WindOnly ==
    [weights |-> [wind |-> 100],
     wind_bands |-> <<[max_wind |-> 10, max_gust |-> 18, score |-> 95],
                      [max_wind |-> 999, max_gust |-> 999, score |-> 15]>>,
     window_logic |-> [min_score_for_good |-> 65, min_window_length |-> 2]]

\* winds of a day: three within the first band, one beyond it
WindSpeeds == {5, 6, 7, 12}

\* days that carry a date and a wind only
WindDaySeqs ==
    {[i \in 1..Len(ws) |-> [date |-> DateOf(i), wind_kmh |-> ws[i]]] :
        ws \in SeqsUpTo(WindSpeeds, MaxDays)}

\* score_period once the lookup has found profile
ScorePeriodProfileCall ==
    /\ pc = "idle"
    /\ \E days \in WindDaySeqs :
        LET r == ScoredPeriod(WindOnly, days) IN
        /\ call' = [op |-> "score_period", profile |-> WindOnly, days |-> days]
        /\ pc' = "returned"
        /\ scored_days' = r.days
        /\ windows' = r.windows
        /\ best_window' = r.best_window
        /\ verdict' = r.expedition_verdict
    /\ UNCHANGED <<ret, overlay, lock, threads>>

NextWindOnly ==
    \/ ScorePeriodProfileCall
    \/ Return

SpecWindOnly == Init /\ [][NextWindOnly]_vars

\* the winds of the days of the call
CallWinds == [i \in 1..Len(call.days) |-> call.days[i].wind_kmh]

\* C21: three consecutive days with winds 5, 6, 7 under the wind-only
\* profile give three scored days, a best window of length 3 with avg_score
\* 95, and the verdict go, both from score_period and under the overlay
\* thresholds window_min_length 2, go_threshold 80, maybe_threshold 70.
C21_ThreeCalmDays ==
    pc = "returned" /\ call.op = "score_period" /\ "profile" \in DOMAIN call
    /\ call.profile = WindOnly /\ CallWinds = <<5, 6, 7>> =>
        /\ Len(scored_days) = 3
        /\ \A i \in 1..3 : scored_days[i].score = 95
        /\ best_window # None
        /\ best_window.length = 3
        /\ best_window.avg_score = Frac(95, 1)
        /\ best_window.start_date = DateOf(1)
        /\ best_window.end_date = DateOf(3)
        /\ verdict = "go"
        /\ HunterVerdict(windows, best_window, 2, 80, 70) = "go"

\* the three days have been scored
C21_Witness ==
    /\ pc = "returned"
    /\ call.op = "score_period"
    /\ "profile" \in DOMAIN call
    /\ CallWinds = <<5, 6, 7>>
    /\ Len(scored_days) = 3

----------------------------------------------------------------------------
(* build_moana_day_summaries on daily blocks with malformed days *)

\* wind values of a block: two numbers, a string that is no number, null
BlockWinds == {5, 15, BadStr, Null}

\* daily blocks of up to MaxDays dates: the wind array may be short and hold
\* values float() rejects, the gust array may lack its last value, the rain
\* array may start with a string that is no number
MalformedBlocks ==
    {[time |-> [i \in 1..n |-> DateOf(i)],
      windspeed_10m_max |-> w,
      windgusts_10m_max |-> [i \in 1..(n - short) |-> 20],
      precipitation_sum |-> [i \in 1..n |-> IF i = 1 /\ bad THEN BadStr ELSE 0]] :
        n \in 1..MaxDays, w \in SeqsUpTo(BlockWinds, MaxDays), short \in {0, 1}, bad \in BOOLEAN}

BuildMoanaCall ==
    /\ pc = "idle"
    /\ \E daily \in MalformedBlocks :
        LET r == build_moana_day_summaries(daily) IN
        /\ call' = [op |-> "build_moana_day_summaries", daily |-> daily]
        /\ IF r.raised = "none"
           THEN pc' = "returned" /\ ret' = r.out
           ELSE pc' = "raised" /\ ret' = Raised(r.raised)
    /\ UNCHANGED <<overlay, scored_days, windows, best_window, verdict, lock, threads>>

NextBuild ==
    \/ BuildMoanaCall
    \/ Return

SpecBuild == Init /\ [][NextBuild]_vars

\* the value at position i of arr is a number
IsNumberAt(arr, i) == i <= Len(arr) /\ arr[i] \notin {BadStr, Null}

\* the positions of the block's dates whose wind, gust and rain are numbers
WellFormedDays(daily) ==
    {i \in 1..Len(daily.time) :
        /\ IsNumberAt(daily.windspeed_10m_max, i)
        /\ IsNumberAt(daily.windgusts_10m_max, i)
        /\ IsNumberAt(daily.precipitation_sum, i)}

\* C22: the builder does not raise, and returns one summary for each
\* well-formed day and none for the others, in the order of the dates.
C22_MalformedDaysSkipped ==
    call.op = "build_moana_day_summaries" /\ pc # "idle" =>
        /\ pc = "returned"
        /\ Len(ret) = Cardinality(WellFormedDays(call.daily))
        /\ \A k \in 1..Len(ret) :
            /\ \E i \in WellFormedDays(call.daily) : ret[k].date = call.daily.time[i]
            /\ k > 1 => ret[k - 1].date < ret[k].date

----------------------------------------------------------------------------
(* Properties of the label floor *)

\* the fixed ordering of the labels, lowest first
LabelOrder == <<"no-go", "marginal", "ok", "good", "excellent">>

\* label a is at or above label b in the ordering
AtOrAbove(a, b) ==
    \E i, j \in DOMAIN LabelOrder : LabelOrder[i] = a /\ LabelOrder[j] = b /\ i >= j

\* C23: for a min_label of the ordering, every day inside a window that
\* find_multi_day_windows returns has a label at or above min_label, and
\* the day before and the day after a window have a label below it.
C23_LabelFloor ==
    pc = "returned" /\ call.op = "find_multi_day_windows"
    /\ (\E j \in DOMAIN LabelOrder : LabelOrder[j] = call.min_label) =>
        \A k \in DOMAIN ret :
            LET s == Idx(ret[k].start_date)
                e == Idx(ret[k].end_date)
            IN  /\ \A i \in s..e : AtOrAbove(call.days[i].label, call.min_label)
                /\ s > 1 => ~AtOrAbove(call.days[s - 1].label, call.min_label)
                /\ e < Len(call.days) => ~AtOrAbove(call.days[e + 1].label, call.min_label)

\* a window of excellent days found under the floor excellent, with a good
\* day right after it
C23_Witness ==
    /\ pc = "returned"
    /\ call.op = "find_multi_day_windows"
    /\ call.min_label = "excellent"
    /\ \E k \in DOMAIN ret :
        /\ Idx(ret[k].end_date) < Len(call.days)
        /\ call.days[Idx(ret[k].end_date) + 1].label = "good"

----------------------------------------------------------------------------
(* The two finders compared *)

\* the score floor and the label floor select the same days of the sequence
FloorsAgree(days, min_score, min_label) ==
    \A i \in DOMAIN days :
        (days[i].score >= min_score) <=> AtOrAbove(days[i].label, min_label)

KnownLabels == {LabelOrder[j] : j \in DOMAIN LabelOrder}

\* C24: whenever a score floor and a label floor select the same days of
\* the sequence, _find_windows under the one and find_multi_day_windows
\* under the other return the same list of windows for the same min_length.
C24_FindersAgree ==
    FinderReturned =>
        IF call.op = "_find_windows"
        THEN \A min_label \in KnownLabels :
                FloorsAgree(call.days, call.min_score, min_label) =>
                    find_multi_day_windows(call.days, call.min_length, min_label) = ret
        ELSE call.min_label \in KnownLabels =>
                \A min_score \in 0..100 :
                    FloorsAgree(call.days, min_score, call.min_label) =>
                        _find_windows(call.days, min_score, call.min_length) = ret

\* _find_windows returned a one-day window under the floor 80 for days
\* that the label floor excellent selects alike, a good day among them
C24_Witness ==
    /\ pc = "returned"
    /\ call.op = "_find_windows"
    /\ call.min_score = 80
    /\ call.min_length = 1
    /\ FloorsAgree(call.days, 80, "excellent")
    /\ \E i \in DOMAIN call.days : call.days[i].label = "good"
    /\ ret # <<>>

----------------------------------------------------------------------------
(* caravan_engine *)
(* Rain is in tenths of a millimetre.  The notes of a day score, which    *)
(* nothing reads back, are left out.                                      *)

_score_towing(tow_wind, tow_gust) ==
    LET wind == IF tow_wind <= 20 THEN [score |-> 20, ok |-> TRUE]
                ELSE IF tow_wind <= 35 THEN [score |-> 10, ok |-> TRUE]
                ELSE IF tow_wind <= 45 THEN [score |-> -10, ok |-> TRUE]
                ELSE [score |-> -30, ok |-> FALSE]
        gust == IF tow_gust <= 30 THEN [score |-> 10, ok |-> TRUE]
                ELSE IF tow_gust <= 50 THEN [score |-> 0, ok |-> TRUE]
                ELSE [score |-> -25, ok |-> FALSE]
    IN  [score |-> wind.score + gust.score, ok |-> wind.ok /\ gust.ok]

_score_camping(wind, rain, rain_prev48) ==
    LET w == IF wind <= 15 THEN [score |-> 20, ok |-> TRUE]
             ELSE IF wind <= 30 THEN [score |-> 5, ok |-> TRUE]
             ELSE [score |-> -20, ok |-> FALSE]
        r == IF rain < 10 THEN [score |-> 15, ok |-> TRUE]
             ELSE IF rain < 50 THEN [score |-> 5, ok |-> TRUE]
             ELSE IF rain < 150 THEN [score |-> 0, ok |-> TRUE]
             ELSE [score |-> -25, ok |-> FALSE]
        g == IF rain_prev48 < 50 THEN 5
             ELSE IF rain_prev48 < 200 THEN 0
             ELSE -10
    IN  [score |-> w.score + r.score + g, ok |-> w.ok /\ r.ok]

score_caravan_day(region, day) ==
    LET tow == _score_towing(Get(day, "tow_wind", 0), Get(day, "tow_gust", 0))
        camp == _score_camping(Get(day, "camp_wind", 0), Get(day, "camp_rain", 0),
                               Get(day, "camp_rain_prev48", 0))
    IN  [date      |-> day.date,
         region_id |-> region.id,
         score     |-> 50 + tow.score + camp.score,
         tow_ok    |-> tow.ok,
         camp_ok   |-> camp.ok]

\* CARAVAN_REGIONS: ids and names
CARAVAN_REGIONS ==
    <<[id |-> "benmore_mackenzie", name |-> "Benmore / Mackenzie"],
      [id |-> "waikaia_five_rivers", name |-> "Waikaia / Five Rivers"],
      [id |-> "haast_jackson_bay", name |-> "Haast / Jackson Bay"],
      [id |-> "catlins_coast", name |-> "Catlins Coast"]>>

\* region_name_by_id.get(rid, rid)
region_name(rid) ==
    IF \E k \in DOMAIN CARAVAN_REGIONS : CARAVAN_REGIONS[k].id = rid
    THEN CARAVAN_REGIONS[CHOOSE k \in DOMAIN CARAVAN_REGIONS : CARAVAN_REGIONS[k].id = rid].name
    ELSE rid

\* a day extends the current run on its camp_ok alone
RunDay_CampOnly(ds) == ds.camp_ok

\* a day extends the current run
RunDay(ds) == ds.camp_ok /\ ds.tow_ok

RECURSIVE SumDayScores(_)
SumDayScores(run) == IF run = <<>> THEN 0 ELSE Head(run).score + SumDayScores(Tail(run))

\* flush_run: the windows after the current run is closed
flush_run(rid, current_run, min_nights, ws) ==
    IF Len(current_run) >= min_nights
    THEN Append(ws, [region_id   |-> rid,
                     region_name |-> region_name(rid),
                     start_date  |-> current_run[1].date,
                     end_date    |-> current_run[Len(current_run)].date,
                     nights      |-> Len(current_run),
                     avg_score   |-> Frac(SumDayScores(current_run), Len(current_run)),
                     days        |-> current_run])
    ELSE ws

\* the loop over the scored days of one region, and the flush after it
RECURSIVE CaravanRunLoop(_, _, _, _, _, _)
CaravanRunLoop(rid, scored, i, current_run, min_nights, ws) ==
    IF i > Len(scored) THEN flush_run(rid, current_run, min_nights, ws)
    ELSE IF RunDay(scored[i])
    THEN CaravanRunLoop(rid, scored, i + 1, Append(current_run, scored[i]), min_nights, ws)
    ELSE CaravanRunLoop(rid, scored, i + 1, <<>>, min_nights,
                        flush_run(rid, current_run, min_nights, ws))

\* the loop over the regions
RECURSIVE CaravanRegionLoop(_, _, _, _, _)
CaravanRegionLoop(regions, k, forecast_by_region, min_nights, ws) ==
    IF k > Len(regions) THEN ws
    ELSE LET region == regions[k]
             days == Get(forecast_by_region, region.id, <<>>)
         IN  IF days = <<>>
             THEN CaravanRegionLoop(regions, k + 1, forecast_by_region, min_nights, ws)
             ELSE CaravanRegionLoop(regions, k + 1, forecast_by_region, min_nights,
                    CaravanRunLoop(region.id,
                                   [i \in 1..Len(days) |-> score_caravan_day(region, days[i])],
                                   1, <<>>, min_nights, ws))

\* windows.sort(key=avg_score, reverse=True): stable, equal averages keep their order
RECURSIVE InsertByAvg(_, _)
InsertByAvg(w, sorted) ==
    IF sorted = <<>> THEN <<w>>
    ELSE IF FracLt(Head(sorted).avg_score, w.avg_score) THEN <<w>> \o sorted
    ELSE <<Head(sorted)>> \o InsertByAvg(w, Tail(sorted))

RECURSIVE SortByAvg(_, _)
SortByAvg(ws, sorted) ==
    IF ws = <<>> THEN sorted ELSE SortByAvg(Tail(ws), InsertByAvg(Head(ws), sorted))

find_best_caravan_windows(regions, forecast_by_region, min_nights) ==
    SortByAvg(CaravanRegionLoop(regions, 1, forecast_by_region, min_nights, <<>>), <<>>)

----------------------------------------------------------------------------
(* find_best_caravan_windows called on bounded inputs *)

\* (tow_wind, tow_gust, camp_wind, camp_rain, camp_rain_prev48) of a day:
\* calm (score 120), moderate (70), pushy and muddy but passable (35),
\* too windy to tow, too wet to camp
CaravanDayKinds ==
    {<<10, 20, 8, 0, 0>>, <<30, 40, 20, 20, 100>>, <<40, 40, 20, 100, 300>>,
     <<50, 40, 8, 0, 0>>, <<10, 20, 8, 200, 0>>}

CaravanDay(date, k) ==
    [date |-> date, tow_wind |-> k[1], tow_gust |-> k[2], camp_wind |-> k[3],
     camp_rain |-> k[4], camp_rain_prev48 |-> k[5]]

CaravanForecasts ==
    {[i \in 1..Len(ks) |-> CaravanDay(DateOf(i), ks[i])] : ks \in SeqsUpTo(CaravanDayKinds, MaxDays)}

\* forecasts of the second region: two calm days, two moderate days after
\* a day too windy to tow, none
OtherForecasts ==
    {[i \in 1..Len(ks) |-> CaravanDay(DateOf(i), ks[i])] :
        ks \in {<<<<10, 20, 8, 0, 0>>, <<10, 20, 8, 0, 0>>>>,
                <<<<50, 40, 8, 0, 0>>, <<30, 40, 20, 20, 100>>, <<30, 40, 20, 20, 100>>>>,
                <<>>}}

MinNights == {1, 2, 3}

\* the regions asked for: the first three of CARAVAN_REGIONS
AskedRegions == SubSeq(CARAVAN_REGIONS, 1, 3)

FindBestCaravanWindowsCall ==
    /\ pc = "idle"
    /\ \E f1 \in CaravanForecasts, f2 \in OtherForecasts, min_nights \in MinNights :
        LET forecast_by_region == [benmore_mackenzie |-> f1, waikaia_five_rivers |-> f2] IN
        /\ call' = [op |-> "find_best_caravan_windows", regions |-> AskedRegions,
                    forecast_by_region |-> forecast_by_region, min_nights |-> min_nights]
        /\ ret' = find_best_caravan_windows(AskedRegions, forecast_by_region, min_nights)
    /\ pc' = "returned"
    /\ UNCHANGED <<overlay, scored_days, windows, best_window, verdict, lock, threads>>

NextCaravan ==
    \/ FindBestCaravanWindowsCall
    \/ Return

SpecCaravan == Init /\ [][NextCaravan]_vars

----------------------------------------------------------------------------
(* Properties of find_best_caravan_windows *)

CaravanReturned == pc = "returned" /\ call.op = "find_best_caravan_windows"

\* the forecast of region rid in the call, empty when it has none
ForecastOf(rid) == Get(call.forecast_by_region, rid, <<>>)

\* the region dict of the call with the given id
AskedRegion(rid) ==
    call.regions[CHOOSE k \in DOMAIN call.regions : call.regions[k].id = rid]

\* day i of region rid's forecast is fit for towing and for camping
FitDay(rid, i) ==
    LET ds == score_caravan_day(AskedRegion(rid), ForecastOf(rid)[i])
    IN  ds.tow_ok /\ ds.camp_ok

\* s..e is a maximal run of fit days of region rid's forecast
IsFitRun(rid, s, e) ==
    /\ 1 <= s /\ s <= e /\ e <= Len(ForecastOf(rid))
    /\ \A i \in s..e : FitDay(rid, i)
    /\ s > 1 => ~FitDay(rid, s - 1)
    /\ e < Len(ForecastOf(rid)) => ~FitDay(rid, e + 1)

\* window w is the run s..e of region rid
IsWindowOf(w, rid, s, e) ==
    /\ w.region_id = rid
    /\ w.start_date = ForecastOf(rid)[s].date
    /\ w.end_date = ForecastOf(rid)[e].date
    /\ w.nights = e - s + 1
    /\ w.days = [i \in 1..(e - s + 1) |->
                    score_caravan_day(AskedRegion(rid), ForecastOf(rid)[s + i - 1])]
    /\ w.avg_score = Frac(SumDayScores(w.days), w.nights)

\* C25: every returned window is a maximal run of consecutive days of one
\* asked region's forecast, all fit for towing and camping, of at least
\* min_nights days, with avg_score the mean of its days' scores; every such
\* run, the one ending the forecast included, is returned once; a region
\* without forecast has no window; the list is in non-increasing avg_score.
C25_CaravanWindows ==
    CaravanReturned =>
        /\ \A k \in DOMAIN ret :
            \E r \in DOMAIN call.regions :
                \E s, e \in 1..Len(ForecastOf(call.regions[r].id)) :
                    /\ IsFitRun(call.regions[r].id, s, e)
                    /\ e - s + 1 >= call.min_nights
                    /\ IsWindowOf(ret[k], call.regions[r].id, s, e)
        /\ \A r \in DOMAIN call.regions :
            \A s, e \in 1..Len(ForecastOf(call.regions[r].id)) :
                IsFitRun(call.regions[r].id, s, e) /\ e - s + 1 >= call.min_nights =>
                    Cardinality({k \in DOMAIN ret :
                                    IsWindowOf(ret[k], call.regions[r].id, s, e)}) = 1
        /\ \A k \in DOMAIN ret : ForecastOf(ret[k].region_id) # <<>>
        /\ \A k \in 1..(Len(ret) - 1) : FracLeq(ret[k + 1].avg_score, ret[k].avg_score)

\* a window of the second region is listed before a window of the first
\* that ends the first region's forecast and has the lower average
C25_Witness ==
    /\ CaravanReturned
    /\ Len(ret) >= 2
    /\ ret[1].region_id = "waikaia_five_rivers"
    /\ ret[2].region_id = "benmore_mackenzie"
    /\ FracLt(ret[2].avg_score, ret[1].avg_score)
    /\ ret[2].end_date = ForecastOf("benmore_mackenzie")[Len(ForecastOf("benmore_mackenzie"))].date
    /\ \E i \in DOMAIN ForecastOf("benmore_mackenzie") : ~FitDay("benmore_mackenzie", i)

----------------------------------------------------------------------------
(* Properties of the expedition handlers *)

\* C26: teanau_expedition never answers hold: a best window has a rounded
\* average of at least the lower of go_threshold and maybe_threshold, and
\* the verdict is go, maybe-go or no-window.
C26_TeAnauNeverHolds ==
    pc = "returned" /\ call.op = "teanau_expedition" =>
        /\ verdict \in {"go", "maybe-go", "no-window"}
        /\ best_window # None =>
            \E a \in 0..100 :
                /\ IsRounded(best_window.avg_score, a)
                /\ a >= HandlerThresholds.go_threshold \/ a >= HandlerThresholds.maybe_threshold

\* a best window whose rounded average is just the maybe_threshold, below
\* the go_threshold
C26_Witness ==
    /\ pc = "returned"
    /\ call.op = "teanau_expedition"
    /\ best_window # None
    /\ Round(best_window.avg_score) = HandlerThresholds.maybe_threshold
    /\ HandlerThresholds.maybe_threshold < HandlerThresholds.go_threshold
    /\ verdict = "maybe-go"

----------------------------------------------------------------------------
(* app.hunter_expedition_v2 *)

\* (wind, gust, rain, temp_min, temp_max) of one day
HunterObs == {<<5, 10, 0, 14, 22>>, <<18, 30, 0, 4, 10>>, <<25, 40, 0, 10, 16>>}

\* the daily block of the forecast service for the Hunter; a jagged block
\* lacks the gust of its last day
HunterDailyBlock(obs, jagged) ==
    [time |-> [i \in 1..Len(obs) |-> DateOf(i)],
     temperature_2m_max |-> [i \in 1..Len(obs) |-> obs[i][5]],
     temperature_2m_min |-> [i \in 1..Len(obs) |-> obs[i][4]],
     precipitation_sum  |-> [i \in 1..Len(obs) |-> obs[i][3]],
     windspeed_10m_max  |-> [i \in 1..Len(obs) |-> obs[i][1]],
     windgusts_10m_max  |-> [i \in 1..(Len(obs) - (IF jagged THEN 1 ELSE 0)) |-> obs[i][2]]]

\* the loop building day_weather: [raised |-> "none", out |-> day_weather],
\* or [raised |-> e] for an exception the except clause does not catch
RECURSIVE HunterLoop(_, _, _)
HunterLoop(daily, i, out) ==
    IF i > Len(daily.time) THEN [raised |-> "none", out |-> out]
    ELSE LET conv == FloatAll(<<daily.temperature_2m_max, daily.temperature_2m_min,
                                daily.precipitation_sum, daily.windspeed_10m_max,
                                daily.windgusts_10m_max>>, i)
         IN  IF conv \in {"IndexError", "ValueError"}
             THEN HunterLoop(daily, i + 1, out)
             ELSE IF conv # "ok" THEN [raised |-> conv, out |-> <<>>]
             ELSE HunterLoop(daily, i + 1,
                    Append(out, [date |-> daily.time[i],
                                 temp_max |-> daily.temperature_2m_max[i],
                                 temp_min |-> daily.temperature_2m_min[i],
                                 rain_mm  |-> daily.precipitation_sum[i],
                                 wind_kmh |-> daily.windspeed_10m_max[i],
                                 gust_kmh |-> daily.windgusts_10m_max[i]]))

\* what hunter_expedition_v2 computes from the thresholds and the day_weather
HunterResult(cfg, day_weather) ==
    LET thresh == get_activity_thresholds(cfg, "hunter", "boating_fizz")
        scored == score_period("hunter", "boating_fizz", day_weather)
        ws == scored.windows
        best == scored.best_window
    IN  [days |-> scored.days, windows |-> ws, best_window |-> best,
         verdict |-> HunterVerdict(ws, best, thresh.window_min_length,
                                   thresh.go_threshold, thresh.maybe_threshold)]

\* the fetch fails after the thresholds were looked up
RefuseAfterLookup(op, days) ==
    /\ call' = [op |-> op, days |-> days]
    /\ pc' = "raised"
    /\ overlay' = _ensure_file_exists(overlay)
    /\ UNCHANGED <<ret, scored_days, windows, best_window, verdict, lock, threads>>

HunterExpeditionV2 ==
    /\ pc = "idle"
    /\ \E days \in DaysParams :
        IF days < 1 \/ days > 10
        THEN Refuse("hunter_expedition_v2", days)
        ELSE \/ RefuseAfterLookup("hunter_expedition_v2", days)
             \/ \E obs \in SeqsUpTo(HunterObs, Min(days, MaxDays)), jagged \in BOOLEAN :
                 LET daily == HunterDailyBlock(obs, jagged /\ obs # <<>>)
                     dw == HunterLoop(daily, 1, <<>>)
                 IN  IF dw.raised # "none"
                     THEN RefuseAfterLookup("hunter_expedition_v2", days)
                     ELSE Answer("hunter_expedition_v2", days, daily,
                                 HunterResult(load_config(overlay), dw.out))

\* thresholds posted for the Hunter
HunterThresholds == {Thresholds(1, 80, 70), Thresholds(3, 70, 65), Thresholds(2, 95, 90)}

HunterBodies ==
    {[json |-> "object", regions |-> [hunter |-> [boating_fizz |-> t]]] : t \in HunterThresholds}
    \cup {[json |-> "object", regions |-> [hunter |-> <<>>]]}

UpdateHunterConfig == UpdateAdminConfigWith(HunterBodies)

NextHunter ==
    \/ HunterExpeditionV2
    \/ UpdateHunterConfig
    \/ Return

SpecHunter == Init /\ [][NextHunter]_vars

\* the Hunter thresholds the handler reads
HunterCfg == get_activity_thresholds(overlay, "hunter", "boating_fizz")

HunterReturned == pc = "returned" /\ call.op = "hunter_expedition_v2"

\* the day_weather of the call, as score_period is given it
HunterDayWeather == HunterLoop(call.daily, 1, <<>>).out

\* C27: hunter_expedition_v2 takes its windows from score_period, found with
\* the profile's window_logic, and its verdict from the overlay thresholds:
\* no-window exactly when score_period found no window; go or maybe-go only
\* for a best window of at least window_min_length days whose rounded
\* average reaches the threshold; hold for any other best window, a best
\* window shorter than window_min_length among them.
C27_HunterVerdict ==
    HunterReturned =>
        LET wl == REGION_PROFILES.hunter.activities.boating_fizz.window_logic
            a == Round(best_window.avg_score)
            long == best_window.length >= HunterCfg.window_min_length
        IN  /\ windows = _find_windows(scored_days, wl.min_score_for_good, wl.min_window_length)
            /\ best_window = _choose_best_window(windows)
            /\ verdict = "no-window" <=> windows = <<>>
            /\ windows # <<>> =>
                /\ verdict = "go" <=> long /\ a >= HunterCfg.go_threshold
                /\ verdict = "maybe-go" <=>
                      long /\ a < HunterCfg.go_threshold /\ a >= HunterCfg.maybe_threshold
                /\ ~long => verdict = "hold"
                /\ verdict \in {"go", "maybe-go", "hold"}

\* a best window clearing the go_threshold, but shorter than
\* window_min_length: hold
C27_Witness ==
    /\ HunterReturned
    /\ best_window # None
    /\ best_window.length < HunterCfg.window_min_length
    /\ Round(best_window.avg_score) >= HunterCfg.go_threshold
    /\ verdict = "hold"

WaikaiaReturned == pc = "returned" /\ call.op = "waikaia_trip"

\* C28: waikaia_trip searches the label floor good first and the floor ok
\* only when good yields no window: with a run of good days of at least
\* window_min_length the windows and the best window are those of the good
\* floor, otherwise those of the ok floor, and the verdict is no-window
\* exactly when neither floor yields a window.
C28_GoodFloorFirst ==
    WaikaiaReturned =>
        LET n == HandlerThresholds.window_min_length
            good == find_multi_day_windows(scored_days, n, "good")
            ok == find_multi_day_windows(scored_days, n, "ok")
        IN  /\ good # <<>> => windows = good /\ best_window = choose_best_window(good)
            /\ good = <<>> => windows = ok /\ best_window = choose_best_window(ok)
            /\ verdict = "no-window" <=> good = <<>> /\ ok = <<>>
            /\ verdict = "no-window" <=> best_window = None

\* the best window is a run of good days although the ok floor has a longer run
C28_Witness ==
    /\ WaikaiaReturned
    /\ best_window # None
    /\ \A i \in 1..Len(scored_days) :
          scored_days[i].date >= best_window.start_date
          /\ scored_days[i].date <= best_window.end_date
          => scored_days[i].label = "good"
    /\ LET ok == find_multi_day_windows(scored_days, HandlerThresholds.window_min_length, "ok")
       IN  \E p \in 1..Len(ok) : ok[p].length > best_window.length

----------------------------------------------------------------------------
(* Ties in choose_best *)

\* no window of ws is longer than ws[k], none of the same length scores more
IsTop(ws, k) ==
    \A j \in 1..Len(ws) :
        /\ ws[j].length <= ws[k].length
        /\ ws[j].length = ws[k].length => FracLeq(ws[j].avg_score, ws[k].avg_score)

\* C29: among the windows with the greatest length and, of these, the
\* greatest avg_score, choose_best returns the one that comes first in the
\* input list.
C29_FirstOfTies ==
    ChooserReturned /\ call.windows # <<>> =>
        LET ws == call.windows
            first == Least({k \in 1..Len(ws) : IsTop(ws, k)})
        IN  ret = ws[first]

\* two windows tied on length and avg_score after a lesser one: the second
\* of the list is returned, not the third
C29_Witness ==
    /\ ChooserReturned
    /\ Len(call.windows) = 3
    /\ ~IsTop(call.windows, 1)
    /\ IsTop(call.windows, 2) /\ IsTop(call.windows, 3)
    /\ call.windows[2] # call.windows[3]
    /\ ret = call.windows[2]

----------------------------------------------------------------------------
(* app.daily_briefing *)

\* longest forecast a briefing is served from
BriefDays == 2

\* vr of daily_briefing: the rank of a verdict, 0 for any other string
vr(x) ==
    IF x = "go" THEN 3
    ELSE IF x = "maybe-go" THEN 2
    ELSE IF x = "hold" THEN 1
    ELSE 0

RECURSIVE MaxByRank_Last(_, _)
\* MaxByRank keeping the last of the options of greatest rank
MaxByRank_Last(options, k) ==
    IF k = Len(options) THEN k
    ELSE LET m == MaxByRank_Last(options, k + 1)
         IN  IF vr(options[k].data.verdict) > vr(options[m].data.verdict) THEN k ELSE m

RECURSIVE MaxByRank(_, _)
\* max(options, key=vr of the verdict) over options[k..]: the position of
\* the first option of greatest rank
MaxByRank(options, k) ==
    IF k = Len(options) THEN k
    ELSE LET m == MaxByRank(options, k + 1)
         IN  IF vr(options[k].data.verdict) >= vr(options[m].data.verdict) THEN k ELSE m

NoDecentWindows == [fixed |-> "No decent multi-day windows anywhere. Stay home, tie flies."]

\* the reason of a handler's answer: a text made of its verdict and best window
ReasonOf(r) == [verdict |-> r.verdict, best_window |-> r.best_window]

\* the response of daily_briefing to the three handlers' answers
Briefing(days, teanau, hunter, waikaia) ==
    LET answer(r) == [verdict |-> r.verdict, reason |-> ReasonOf(r)]
        options == <<[id |-> "teanau_expedition", label |-> "boating", data |-> answer(teanau)],
                     [id |-> "hunter_expedition", label |-> "boating+fishing", data |-> answer(hunter)],
                     [id |-> "waikaia_trip", label |-> "camping+fishing", data |-> answer(waikaia)]>>
        best == options[MaxByRank(options, 1)]
    IN  [days_considered |-> days,
         summary |-> IF vr(best.data.verdict) = 0 THEN NoDecentWindows ELSE best.data.reason,
         teanau |-> answer(teanau),
         hunter |-> answer(hunter),
         waikaia |-> answer(waikaia),
         best_option |-> [id |-> best.id, label |-> best.label,
                          verdict |-> best.data.verdict, reason |-> best.data.reason]]

\* the days of the three forecasts, two kinds for each place
BriefMoanaObs == {<<5, 20, 0>>, <<10, 20, 0>>}
BriefHunterObs == {<<5, 10, 0, 14, 22>>, <<25, 40, 0, 10, 16>>}
BriefWaikaiaObs == {<<10, 0>>, <<10, 6>>}

\* one of the three fetches fails: teanau_expedition has not looked its
\* thresholds up by then, the later handlers run after it has
BriefingRefused(days, failed) ==
    /\ call' = [op |-> "daily_briefing", days |-> days]
    /\ pc' = "raised"
    /\ overlay' = IF failed = "teanau_expedition" THEN overlay ELSE _ensure_file_exists(overlay)
    /\ UNCHANGED <<ret, scored_days, windows, best_window, verdict, lock, threads>>

DailyBriefing ==
    /\ pc = "idle"
    /\ \E days \in DaysParams :
        IF days < 2 \/ days > 10
        THEN Refuse("daily_briefing", days)
        ELSE \/ \E failed \in {"teanau_expedition", "hunter_expedition_v2", "waikaia_trip"} :
                    BriefingRefused(days, failed)
             \/ \E m \in SeqsUpTo(BriefMoanaObs, Min(days, BriefDays)),
                   h \in SeqsUpTo(BriefHunterObs, Min(days, BriefDays)),
                   w \in SeqsUpTo(BriefWaikaiaObs, Min(Min(days, 7), BriefDays)) :
                 LET cfg == load_config(overlay)
                     teanau == TeAnauResult(cfg, DailyBlock(m, TRUE))
                     hunter == HunterResult(cfg, HunterLoop(HunterDailyBlock(h, FALSE), 1, <<>>).out)
                     waikaia == WaikaiaResult(cfg, DailyBlock(w, FALSE))
                 IN  /\ call' = [op |-> "daily_briefing", days |-> days]
                     /\ pc' = "returned"
                     /\ ret' = Briefing(days, teanau, hunter, waikaia)
                     /\ overlay' = _ensure_file_exists(overlay)
                     /\ UNCHANGED <<scored_days, windows, best_window, verdict, lock, threads>>

\* thresholds posted for the three places together
BriefingBodies ==
    {[json |-> "object",
      regions |-> [te_anau |-> [boating_moana |-> t[1]],
                   hunter  |-> [boating_fizz  |-> t[2]],
                   waikaia |-> [river_fishing |-> t[3]]]] :
        t \in {<<Thresholds(2, 85, 65), Thresholds(1, 80, 70), Thresholds(2, 73, 70)>>,
               <<Thresholds(2, 23, 10), Thresholds(3, 70, 65), Thresholds(1, 70, 80)>>,
               <<Thresholds(1, 65, 85), Thresholds(2, 95, 90), Thresholds(2, 85, 80)>>,
               <<Thresholds(3, 95, 90), Thresholds(2, 95, 90), Thresholds(2, 85, 80)>>}}

UpdateBriefingConfig == UpdateAdminConfigWith(BriefingBodies)

NextBriefing ==
    \/ DailyBriefing
    \/ UpdateBriefingConfig
    \/ Return

SpecBriefing == Init /\ [][NextBriefing]_vars

BriefingReturned == pc = "returned" /\ call.op = "daily_briefing"

\* the ranking go > maybe-go > hold > no-window
VerdictOrder == <<"no-window", "hold", "maybe-go", "go">>
PlaceOf(v) == CHOOSE k \in 1..Len(VerdictOrder) : VerdictOrder[k] = v
Outranks(a, b) == PlaceOf(a) > PlaceOf(b)

\* C30: the best_option of daily_briefing is the first, in the order Te Anau,
\* Hunter, Waikaia, of the expeditions whose verdict no other outranks under
\* go > maybe-go > hold > no-window, and the summary is the fixed message
\* exactly when all three verdicts are no-window.
C30_BestOption ==
    BriefingReturned =>
        LET t == ret.teanau.verdict
            h == ret.hunter.verdict
            w == ret.waikaia.verdict
            b == ret.best_option
        IN  /\ {t, h, w} \subseteq {"go", "maybe-go", "hold", "no-window"}
            /\ b.id = "teanau_expedition" <=> ~Outranks(h, t) /\ ~Outranks(w, t)
            /\ b.id = "hunter_expedition" <=> Outranks(h, t) /\ ~Outranks(w, h)
            /\ b.id = "waikaia_trip" <=> Outranks(w, t) /\ Outranks(w, h)
            /\ b.id = "teanau_expedition" => b.verdict = t /\ b.reason = ret.teanau.reason
            /\ b.id = "hunter_expedition" => b.verdict = h /\ b.reason = ret.hunter.reason
            /\ b.id = "waikaia_trip" => b.verdict = w /\ b.reason = ret.waikaia.reason
            /\ ret.summary = NoDecentWindows <=> {t, h, w} = {"no-window"}
            /\ ret.summary # NoDecentWindows => ret.summary = b.reason

\* Hunter and Waikaia tie above Te Anau, at a rank below go: Hunter is chosen
C30_Witness ==
    /\ BriefingReturned
    /\ ret.hunter.verdict = ret.waikaia.verdict
    /\ ret.hunter.verdict # "go"
    /\ Outranks(ret.hunter.verdict, ret.teanau.verdict)
    /\ ret.best_option.id = "hunter_expedition"

====
